---- MODULE Spec2Model ----
(***************************************************************************)
(* AtomicArc / SharedArc and the hazard registry of src/src/atomic_arc.rs, *)
(* AtomicCell with its striped lock table of src/src/atomic_cell.rs,       *)
(* HazardCell of src/src/hazard_cell.rs and the Treiber stack of           *)
(* src/examples/stack.rs.                                                  *)
(*                                                                         *)
(* Every atomic memory operation of the source is one step of the thread   *)
(* that executes it, under sequential consistency.  A thread's position in *)
(* a method is pc[t], the method's local variables are loc[t].             *)
(*                                                                         *)
(* Pointers are 1..PoolSize (0 is the null word); an address is never      *)
(* handed out twice, so "freed" is unambiguous.  One AtomicArc exists at a *)
(* time; after drop / into_inner a new one may be constructed.             *)
(*                                                                         *)
(* The first Registry segment is taken as allocated (a fresh segment has   *)
(* all entries free, as in Init); its creation and that of the next        *)
(* segment are the subject of the specification of the registry links.     *)
(* Threads exit, and in_use is reset, only in the specification of the     *)
(* thread registry.  A strong count that is dropped on the null pointer    *)
(* kills the process (crashed); one that is dropped on, or cloned from, a  *)
(* freed referent is undefined behaviour: the process dies or goes on.     *)
(***************************************************************************)
EXTENDS Integers, Sequences, FiniteSets, TLC

\* ---- bounds of the model ------------------------------------------------
NumThreads == 2      \* threads that use the AtomicArc
NumHazards == 1      \* hazard slots per ThreadEntry (the source's array has 6)
MaxHeld == 2         \* SharedArcs one thread holds at the same time
MaxPtr == 2          \* Arc allocations in the general specifications
MaxReplace == 2      \* replace calls per thread in the replace-only scenario

Threads == 1..NumThreads
\* Only as many registry entries as there are threads can ever be claimed; the
\* other entries of the 32-entry segment stay free and are skipped by every scan.
Entries == 1..NumThreads
\* A thread never needs more slots than the SharedArcs it may hold: slots
\* 1..NumHazards lie in the registry entry, the following ones in the extension
\* entries chained through `next`.
MaxSlots == MaxHeld
Slots == 1..MaxSlots
PoolSize == 1 + NumThreads * MaxReplace + MaxPtr
Ptrs == 1..PoolSize
Words == 0..PoolSize

NullSlot == <<0, 0>>
ValKinds == {"none", "fresh", "hand"}

VARIABLES
    inner,      \* AtomicArc.inner: the word of the cell
    arc,        \* "live" | "taken" (into_inner) | "dropped": life of the AtomicArc
    strong,     \* strong count of every Arc allocation
    alloc,      \* number of Arcs allocated so far
    hazards,    \* ThreadEntry.hazards of every entry chain: [Entries -> [Slots -> Words]]
    in_use,     \* ThreadEntry.in_use
    next,       \* number of extension entries chained to a registry entry
    entry,      \* HARNESS.entry of every thread, 0 before the thread-local is initialised
    held,       \* the SharedArcs every thread holds
    hand,       \* the Option<Arc<T>> every thread holds (0 is None)
    pc,         \* position of every thread
    loc,        \* local variables of the method a thread executes
    evicted,    \* per pointer: strong counts taken out of the cell (swap / CAS / drop)
    released,   \* per pointer: Arc::from_raw(..) drops executed by the drop protocols
    cas_result, \* per thread: what its last compare_and_set returned
    count,      \* per thread: replace calls made in the replace-only scenario
    crashed     \* the process dereferenced null or freed memory and was killed

arcVars == <<inner, arc, strong, alloc, hazards, in_use, next, entry, held, hand,
             pc, loc, evicted, released, cas_result, count, crashed>>

\* ---- state of the AtomicCell and of the striped lock table ---------------
VARIABLES
    nightly,    \* cfg!(feature = "nightly") of the build
    ty,         \* the payload type T of the AtomicCell<T>
    addr,       \* self.value.get() as usize: the address of the cell's value
    value,      \* AtomicCell.value: the bytes of the cell, as one number
    cell,       \* "live" | "dropped": life of the AtomicCell
    LOCKS,      \* the indices of LOCKS whose AtomicBool is true
    guard,      \* per thread: the stripe its LockGuard refers to, NoGuard without one
    cpc,        \* position of every thread in its AtomicCell method
    cloc,       \* local variables of that method
    ret,        \* per thread: what its last AtomicCell method returned
    ops,        \* per thread: AtomicCell methods called so far
    reg,        \* the register the cell implements, written at linearization points
    plain,      \* a std::cell::Cell driven by the same calls, for one caller
    CNT,        \* live count of the counted payload: Foo::new adds, drop subtracts
    owned       \* per thread: counted payloads the caller holds

cellVars == <<nightly, ty, addr, value, cell, LOCKS, guard, cpc, cloc, ret, ops,
              reg, plain, CNT, owned>>

\* ---- state of the registry links ----------------------------------------------
VARIABLES
    links,      \* REGISTRY and the `next` of the first segment: 0 is null, else a segment
    segments,   \* per Box<Registry> that try_extend_registry may allocate: its life
    seen        \* per thread and link: the segment the thread last loaded from the link

\* ---- state of the stack of examples/stack.rs -----------------------------------
VARIABLES
    head,       \* Stack.head: the word of the AtomicArc
    nnext,      \* per node: the word of Node.next
    nval,       \* per node: Node.value holds Some(value)
    ncount,     \* per node: the strong count of its Arc
    nfreed,     \* per node: how often its allocation was freed
    nalloc,     \* nodes allocated so far
    shaz,       \* the hazard slots of the registry entries the stack's threads use
    sin_use,    \* ThreadEntry.in_use of those entries
    sentry,     \* per thread: its registry entry, 0 before HARNESS is initialised
    spc,        \* position of every thread in push / pop
    sloc,       \* local variables of push / pop and of the get they call
    frames,     \* per thread: the drops in progress, innermost last
    got,        \* per node: how many pops returned its value
    calls       \* per thread: pushes made, pops called, pops that returned a value

stackVars == <<head, nnext, nval, ncount, nfreed, nalloc, shaz, sin_use, sentry,
               spc, sloc, frames, got, calls>>

sideVars == <<links, segments, seen, stackVars>>

vars == <<inner, arc, strong, alloc, hazards, in_use, next, entry, held, hand,
          pc, loc, evicted, released, cas_result, count, crashed,
          nightly, ty, addr, value, cell, LOCKS, guard, cpc, cloc, ret, ops,
          reg, plain, CNT, owned, links, segments, seen,
          head, nnext, nval, ncount, nfreed, nalloc, shaz, sin_use, sentry,
          spc, sloc, frames, got, calls>>

\* Link 1 is the static REGISTRY, link 2 the `next` of the segment it points to.
Links == 1..2
\* The segment a thread allocates for a link: one per thread and link.
Draft(t, k) == (k - 1) * NumThreads + t
SegIds == 1..(2 * NumThreads)

\* ---- bounds of the AtomicCell model -----------------------------------------
ByteBits == 1        \* bits of one byte (8 on hardware)
Modulus == 2         \* the == of the modular payload compares modulo this (5 in the tests)
MaxOps == 2          \* AtomicCell methods one thread calls

\* const LEN: usize = 499, the number of stripe locks
LEN == 499
NoGuard == LEN

\* ---- payload types: size_of, align_of and what the type implements ----------
\* kind: "uint" / "int" are the primitive integers, "modular" is Copy with an
\* == modulo Modulus, "counted" has a destructor that is counted, "plain" is
\* any other Copy type.
Ty(n, s, a, k) == [name |-> n, size |-> s, align |-> a, kind |-> k]

Unit == Ty("()", 0, 1, "plain")
Bool == Ty("bool", 1, 1, "plain")
U8Wrap == Ty("U8Wrap", 1, 1, "plain")
UsizeWrap == Ty("UsizeWrap", 8, 8, "plain")
Pair32 == Ty("(u32, u32)", 8, 4, "plain")
Bytes1000 == Ty("[u8; 1000]", 1000, 1, "plain")
u8 == Ty("u8", 1, 1, "uint")
i8 == Ty("i8", 1, 1, "int")
u16 == Ty("u16", 2, 2, "uint")
i16 == Ty("i16", 2, 2, "int")
u32 == Ty("u32", 4, 4, "uint")
i32 == Ty("i32", 4, 4, "int")
u64 == Ty("u64", 8, 8, "uint")
i64 == Ty("i64", 8, 8, "int")
usize == Ty("usize", 8, 8, "uint")
isize == Ty("isize", 8, 8, "int")
ModU8 == Ty("modular Foo(u8)", 1, 1, "modular")
ModU16 == Ty("modular Foo(u16)", 2, 2, "modular")
ModUsize == Ty("modular Foo(usize)", 8, 8, "modular")
FooUnit == Ty("counted Foo()", 0, 1, "counted")
FooU8 == Ty("counted Foo(u8)", 1, 1, "counted")
FooUsize == Ty("counted Foo(usize)", 8, 8, "counted")

IntTypes == {u8, i8, u16, i16, u32, i32, u64, i64, usize, isize}
ModTypes == {ModU8, ModU16, ModUsize}
CountedTypes == {FooUnit, FooU8, FooUsize}
PlainTypes == {Unit, Bool, U8Wrap, UsizeWrap, Pair32, Bytes1000}
Types == IntTypes \cup ModTypes \cup CountedTypes \cup PlainTypes

\* mem::needs_drop::<T>()
needs_drop(T) == T.kind = "counted"

\* ---- values are their bytes, least significant first --------------------------
Base == 2 ^ ByteBits
ByteVals == 0..(Base - 1)

RECURSIVE ToNum(_)
ToNum(b) == IF Len(b) = 0 THEN 0 ELSE Head(b) + Base * ToNum(Tail(b))

FromNum(n, size) == [k \in 1..size |-> (n \div (Base ^ (k - 1))) % Base]

\* T::default(): 0, Foo(0), Foo()
Default(T) == [k \in 1..T.size |-> 0]

\* The largest number of the type's size, all bits set.
MaxNum(T) == (Base ^ T.size) - 1

\* The values the callers pass: 0, 1, Modulus and the largest one.
Samples(T) == {FromNum(n, T.size) : n \in {0, 1, Modulus, MaxNum(T)} \cap 0..MaxNum(T)}

\* Variant of byte_eq: every two values pass for equal.
byte_eq_Always(a, b) == TRUE

\* byte_eq(a, b): the two byte slices are equal
byte_eq(a, b) == a = b

\* a == b of the payload type: `self.0 % 5 == other.0 % 5` for the modular
\* payload, the derived == for the others.
Eq(T, a, b) ==
    IF T.kind = "modular" THEN ToNum(a) % Modulus = ToNum(b) % Modulus ELSE a = b

\* Variant of ne: the bytes are compared.
ne_Bytes(T, a, b) == a # b

\* a != b of the payload type
ne(T, a, b) == ~Eq(T, a, b)

\* `val as usize`, and `x as $t` of a usize x: sign or zero extension, truncation.
Negative(T, b) == T.kind = "int" /\ T.size > 0 /\ 2 * b[T.size] >= Base
as_usize(T, b) ==
    [k \in 1..usize.size |->
        IF k <= T.size THEN b[k] ELSE IF Negative(T, b) THEN Base - 1 ELSE 0]
as_t(T, x) == [k \in 1..T.size |-> x[k]]

\* Variant of wrapping_add: the sum saturates at the largest number.
saturating_add(a, b, size) ==
    FromNum(IF ToNum(a) + ToNum(b) >= Base ^ size THEN (Base ^ size) - 1
                                                 ELSE ToNum(a) + ToNum(b), size)

\* wrapping_add and wrapping_sub on values of `size` bytes
wrapping_add(a, b, size) == FromNum((ToNum(a) + ToNum(b)) % (Base ^ size), size)
wrapping_sub(a, b, size) ==
    FromNum((ToNum(a) + (Base ^ size) - ToNum(b)) % (Base ^ size), size)

\* ---- the dispatch of the atomic! macro ----------------------------------------
Atomic(s, a) == [size |-> s, align |-> a]
AtomicUnit == Atomic(0, 1)
AtomicUsize == Atomic(8, 8)
AtomicU8 == Atomic(1, 1)
AtomicU16 == Atomic(2, 2)
AtomicU32 == Atomic(4, 4)
AtomicU64 == Atomic(8, 8)

\* Variant of can_transmute: the alignments are not compared.
can_transmute_size(A, B) == A.size = B.size

\* can_transmute::<A, B>()
can_transmute(A, B) == A.size = B.size /\ A.align >= B.align

\* The @check lines of atomic! in their order; the last four only with the
\* nightly feature.
Checks ==
    <<AtomicUnit, AtomicUsize>>
        \o (IF nightly THEN <<AtomicU8, AtomicU16, AtomicU32, AtomicU64>> ELSE <<>>)

\* atomic! { T, a, atomic_op, fallback_op }: the position of the first check
\* that breaks out of the loop with atomic_op, 0 when fallback_op is reached.
atomic(T) ==
    LET hits == {i \in DOMAIN Checks : can_transmute(T, Checks[i])}
    IN IF hits = {} THEN 0 ELSE CHOOSE i \in hits : \A j \in hits : i <= j

\* atomic! { T, _a, true, false }
atomic_is_lock_free(T) == IF atomic(T) # 0 THEN TRUE ELSE FALSE

\* impl_arithmetic!: the three-argument form (usize, isize, and every integer
\* with the nightly feature) always uses fetch_add / fetch_sub of $atomic; the
\* two-argument form uses them `if can_transmute::<$t, atomic::AtomicUsize>()`.
arithmetic_is_atomic(T) ==
    IF T \in {usize, isize} \/ nightly THEN TRUE ELSE can_transmute(T, AtomicUsize)

\* ---- locals and results of AtomicCell methods ---------------------------------
\* update's FnMut(T) -> T: a constant, or x.wrapping_add(1)
Fns(T) ==
    {[kind |-> "const", c |-> v] : v \in Samples(T)}
        \cup {[kind |-> "add", c |-> FromNum(1, T.size)]}
Apply(f, x, T) == IF f.kind = "const" THEN f.c ELSE wrapping_add(x, f.c, T.size)

NoFn == [kind |-> "none", c |-> <<>>]
NoCLoc == [op |-> "none", prim |-> "none", arg |-> <<>>, val |-> <<>>,
           orig |-> <<>>, current |-> <<>>, new |-> <<>>, f |-> NoFn,
           tmp |-> <<>>, k |-> 0, previous |-> <<>>, made |-> 0,
           expect |-> <<>>, want |-> <<>>, at |-> <<>>, after |-> <<>>,
           calls |-> 0, wrote |-> 0, attempts |-> 0, changes |-> 0, open |-> FALSE]
NoRet == [op |-> "none", val |-> <<>>, flag |-> FALSE, arg |-> <<>>, orig |-> <<>>,
          new |-> <<>>, at |-> <<>>, after |-> <<>>, calls |-> 0, wrote |-> 0,
          attempts |-> 0, changes |-> 0, want |-> <<>>, f |-> NoFn]

\* No AtomicCell is in use: the state of the cell while the AtomicArc is studied.
CellUnused ==
    /\ nightly = FALSE /\ ty = Unit /\ addr = 0
    /\ value = <<>> /\ cell = "dropped"
    /\ LOCKS = {}
    /\ guard = [t \in Threads |-> NoGuard]
    /\ cpc = [t \in Threads |-> "idle"]
    /\ cloc = [t \in Threads |-> NoCLoc]
    /\ ret = [t \in Threads |-> NoRet]
    /\ ops = [t \in Threads |-> 0]
    /\ reg = <<>> /\ plain = <<>>
    /\ CNT = 0
    /\ owned = [t \in Threads |-> 0]

\* iter and base are history fields of a get in progress: the number of times
\* the loop of get published the hazard, and the value of Swaps at the call.
NoLoc == [op |-> "none", e |-> 0, k |-> 0, slot |-> NullSlot, inner |-> 0,
          g |-> 0, new |-> 0, cur |-> 0, cont |-> "idle", chk |-> FALSE,
          iter |-> 0, base |-> 0]

\* Result<(), Option<Arc<T>>>: Ok(()) or Err(handle), handle as a raw word.
NoResult == [res |-> "none", handle |-> 0]
Ok == [res |-> "ok", handle |-> 0]
Err(h) == [res |-> "err", handle |-> h]

\* SharedArc { inner, slot }; cas and owes are history: a compare_and_set
\* succeeded with this SharedArc as `current`; a try_transfer_drop_responsibility
\* call changed the slot of this SharedArc from its pointer to 0.
SharedArc_new(p, s) == [inner |-> p, slot |-> s, cas |-> FALSE, owes |-> FALSE]

\* The SharedArcs (p, s) after a call changed slot s from p to 0.
Transferred(h, p, s) ==
    [u \in Threads |->
        IF h[u] = <<>> THEN <<>>
        ELSE [i \in DOMAIN h[u] |->
                IF h[u][i].inner = p /\ h[u][i].slot = s /\ p # 0
                  THEN [h[u][i] EXCEPT !.owes = TRUE]
                  ELSE h[u][i]]]

Freed(p) == p <= alloc /\ strong[p] = 0

RemoveAt(s, i) == [j \in 1..(Len(s) - 1) |-> IF j < i THEN s[j] ELSE s[j + 1]]

\* ---- the argument `val: Into<Option<Arc<T>>>` of new / replace / set / CAS ----
CanTake(t, v) ==
    CASE v = "none" -> TRUE
      [] v = "fresh" -> alloc < MaxPtr
      [] v = "hand" -> hand[t] # 0

\* Arc::into_raw(val) as usize, 0 for None
IntoRaw(t, v) ==
    CASE v = "none" -> 0
      [] v = "fresh" -> alloc + 1
      [] v = "hand" -> hand[t]

AllocAfter(v) == IF v = "fresh" THEN alloc + 1 ELSE alloc
StrongAfter(v) == IF v = "fresh" THEN [strong EXCEPT ![alloc + 1] = 1] ELSE strong
HandAfter(t, v) == IF v = "hand" THEN [hand EXCEPT ![t] = 0] ELSE hand

\* ---- the stack of examples/stack.rs: bounds and initial state -------------------
MaxPush == 1         \* calls of push per thread
MaxPop == 1          \* calls of pop per thread
\* Hazard slots of a registry entry (6 in the code).  A thread of the stack has
\* at most two SharedArcs from get at a time, so the first three slots are the
\* only ones it ever loads a non-zero value from or passes over.
StackSlots == 3
Nodes == 1..(NumThreads * MaxPush)

NoSLoc == [op |-> "none", new |-> 0, cell |-> 0, inner |-> 0, slot |-> 0, k |-> 0,
           hp |-> 0, hs |-> 0, gp |-> 0, gs |-> 0, arg |-> 0, cur |-> 0,
           ret |-> "idle", empty |-> FALSE, res |-> "none"]

\* Stack::new(): head: AtomicArc::new(None); no thread has called get yet.
StackInit ==
    /\ head = 0
    /\ nnext = [n \in Nodes |-> 0]
    /\ nval = [n \in Nodes |-> FALSE]
    /\ ncount = [n \in Nodes |-> 0]
    /\ nfreed = [n \in Nodes |-> 0]
    /\ nalloc = 0
    /\ shaz = [e \in Threads |-> [k \in 1..StackSlots |-> 0]]
    /\ sin_use = [e \in Threads |-> FALSE]
    /\ sentry = [t \in Threads |-> 0]
    /\ spc = [t \in Threads |-> "idle"]
    /\ sloc = [t \in Threads |-> NoSLoc]
    /\ frames = [t \in Threads |-> <<>>]
    /\ got = [n \in Nodes |-> 0]
    /\ calls = [t \in Threads |-> [push |-> 0, pop |-> 0, some |-> 0]]

ArcInit ==
    /\ arc = "live"
    /\ \E p \in {0, 1} :
          /\ inner = p
          /\ alloc = p
          /\ strong = [q \in Ptrs |-> IF q <= p THEN 1 ELSE 0]
    /\ hazards = [e \in Entries |-> [k \in Slots |-> 0]]
    /\ in_use = [e \in Entries |-> FALSE]
    /\ next = [e \in Entries |-> 0]
    /\ entry = [t \in Threads |-> 0]
    /\ held = [t \in Threads |-> <<>>]
    /\ hand = [t \in Threads |-> 0]
    /\ pc = [t \in Threads |-> "idle"]
    /\ loc = [t \in Threads |-> NoLoc]
    /\ evicted = [q \in Ptrs |-> 0]
    /\ released = [q \in Ptrs |-> 0]
    /\ cas_result = [t \in Threads |-> NoResult]
    /\ count = [t \in Threads |-> 0]
    /\ crashed = FALSE
    /\ links = [k \in Links |-> 0]
    /\ segments = [i \in SegIds |-> "none"]
    /\ seen = [t \in Threads |-> [k \in Links |-> 0]]
    /\ StackInit

Init == ArcInit /\ CellUnused

\* A thread is inside a method that borrows the AtomicArc (&self).
Borrows(t) == pc[t] # "idle" /\ loc[t].op \in {"get", "set", "cas"}

Goto(t, label, l) ==
    /\ pc' = [pc EXCEPT ![t] = label]
    /\ loc' = [loc EXCEPT ![t] = IF label = "idle" THEN NoLoc ELSE l]

\* ---- AtomicArc::get ------------------------------------------------------

RECURSIVE SumTo(_, _)
SumTo(f, n) == IF n = 0 THEN 0 ELSE f[n] + SumTo(f, n - 1)

\* The number of swaps and successful compare-and-swaps of the cell's word that
\* took a non-null word out of the cell.
Swaps == SumTo(evicted, PoolSize)

\* get(): HARNESS.with(..) initialises the thread-local on first use.
GetCall(t) ==
    /\ ~crashed /\ UNCHANGED <<cellVars, sideVars>>
    /\ pc[t] = "idle" /\ arc = "live"
    /\ Len(held[t]) < MaxHeld
    /\ IF entry[t] = 0
         THEN Goto(t, "register", [NoLoc EXCEPT !.op = "get", !.e = 1, !.base = Swaps])
         ELSE Goto(t, "alloc", [NoLoc EXCEPT !.op = "get", !.k = 1, !.base = Swaps])
    /\ UNCHANGED <<inner, arc, strong, alloc, hazards, in_use, next, entry, held,
                   hand, evicted, released, cas_result, count, crashed>>

\* Registry::register, one entry per step: load in_use, then swap(true).
register(t) ==
    /\ ~crashed /\ UNCHANGED <<cellVars, sideVars>>
    /\ pc[t] = "register"
    /\ LET e == loc[t].e IN
         IF ~in_use[e]
           THEN /\ in_use' = [in_use EXCEPT ![e] = TRUE]
                /\ entry' = [entry EXCEPT ![t] = e]
                /\ Goto(t, "alloc", [loc[t] EXCEPT !.e = 0, !.k = 1])
           ELSE /\ Goto(t, "register", [loc[t] EXCEPT !.e = e + 1])
                /\ UNCHANGED <<in_use, entry>>
    /\ UNCHANGED <<inner, arc, strong, alloc, hazards, next, held, hand, evicted,
                   released, cas_result, count, crashed>>

\* ThreadEntry::allocate_hazard_slot, one slot per step: the first slot whose
\* load returns 0 is taken; past the last slot of an entry the `next` entry is
\* followed, and allocated when it is null.
allocate_hazard_slot(t) ==
    /\ ~crashed /\ UNCHANGED <<cellVars, sideVars>>
    /\ pc[t] = "alloc"
    /\ LET e == entry[t]
           k == loc[t].k
       IN IF hazards[e][k] = 0
            THEN /\ Goto(t, "load", [loc[t] EXCEPT !.k = 0, !.slot = <<e, k>>])
                 /\ UNCHANGED next
            ELSE /\ Goto(t, "alloc", [loc[t] EXCEPT !.k = k + 1])
                 /\ next' = IF k % NumHazards = 0 /\ next[e] < k \div NumHazards
                              THEN [next EXCEPT ![e] = k \div NumHazards]
                              ELSE next
    /\ UNCHANGED <<inner, arc, strong, alloc, hazards, in_use, entry, held, hand,
                   evicted, released, cas_result, count, crashed>>

\* let mut inner = self.inner.load(Relaxed)
GetLoad(t) ==
    /\ ~crashed /\ UNCHANGED <<cellVars, sideVars>>
    /\ pc[t] = "load"
    /\ Goto(t, "publish", [loc[t] EXCEPT !.inner = inner])
    /\ UNCHANGED <<inner, arc, strong, alloc, hazards, in_use, next, entry, held,
                   hand, evicted, released, cas_result, count, crashed>>

\* Publish the hazard: slot.compare_and_swap(0, inner, SeqCst) on x86, and
\* slot.store(inner) followed by a SeqCst fence elsewhere.  The slot holds 0
\* whenever this step is taken (only its owner writes a non-zero value), so
\* both builds write `inner`.  The guard SharedArc::new(inner, slot) exists
\* from here on.
GetPublish(t) ==
    /\ ~crashed /\ UNCHANGED <<cellVars, sideVars>>
    /\ pc[t] = "publish"
    /\ LET s == loc[t].slot IN
         hazards' = [hazards EXCEPT ![s[1]][s[2]] = IF @ = 0 THEN loc[t].inner ELSE @]
    /\ Goto(t, "reload", [loc[t] EXCEPT !.g = loc[t].inner, !.iter = @ + 1])
    /\ UNCHANGED <<inner, arc, strong, alloc, in_use, next, entry, held, hand,
                   evicted, released, cas_result, count, crashed>>

\* Variant of GetReload: the guard is returned without comparing the re-loaded
\* word with the published one.
GetReload_NoCompare(t) ==
    /\ ~crashed /\ UNCHANGED <<cellVars, sideVars>>
    /\ pc[t] = "reload"
    /\ held' = [held EXCEPT ![t] = Append(@, SharedArc_new(loc[t].inner, loc[t].slot))]
    /\ Goto(t, "idle", NoLoc)
    /\ UNCHANGED <<inner, arc, strong, alloc, hazards, in_use, next, entry, hand,
                   evicted, released, cas_result, count, crashed>>

\* Variant of GetReload: `inner = new` is left out, the next iteration publishes
\* the word of the first load again.
GetReload_KeepsOld(t) ==
    /\ ~crashed /\ UNCHANGED <<cellVars, sideVars>>
    /\ pc[t] = "reload"
    /\ IF inner = loc[t].inner
         THEN /\ held' = [held EXCEPT ![t] =
                     Append(@, SharedArc_new(loc[t].inner, loc[t].slot))]
              /\ Goto(t, "idle", NoLoc)
         ELSE /\ Goto(t, "swap", [loc[t] EXCEPT !.cont = "publish"])
              /\ UNCHANGED held
    /\ UNCHANGED <<inner, arc, strong, alloc, hazards, in_use, next, entry, hand,
                   evicted, released, cas_result, count, crashed>>

\* let new = self.inner.load(Relaxed); if new == inner { return guard }
\* inner = new; and the guard is dropped at the end of the iteration.
GetReload(t) ==
    /\ ~crashed /\ UNCHANGED <<cellVars, sideVars>>
    /\ pc[t] = "reload"
    /\ IF inner = loc[t].inner
         THEN /\ LET s == loc[t].slot
                     a == SharedArc_new(loc[t].inner, s)
                 IN held' = [held EXCEPT ![t] =
                        Append(@, [a EXCEPT !.owes = hazards[s[1]][s[2]] # a.inner])]
              /\ Goto(t, "idle", NoLoc)
         ELSE /\ Goto(t, "swap", [loc[t] EXCEPT !.inner = inner, !.cont = "publish"])
              /\ UNCHANGED held
    /\ UNCHANGED <<inner, arc, strong, alloc, hazards, in_use, next, entry, hand,
                   evicted, released, cas_result, count, crashed>>

\* ---- drop protocols ------------------------------------------------------

\* Leave the drop protocol: back to the caller's continuation.
Continue(t, l) ==
    Goto(t, l.cont, [l EXCEPT !.e = 0, !.k = 0, !.g = 0, !.cont = "idle", !.chk = FALSE])

\* Variant of NotTransferred: the strong count is never dropped.
NotTransferred_Leak(t, l) == Continue(t, l)

\* try_transfer_drop_responsibility(ptr) returned false: AtomicArc::drop frees
\* only `if raw != 0`; SharedArc::drop frees unconditionally.
NotTransferred(t, l) ==
    IF l.chk /\ l.g = 0
      THEN Continue(t, l)
      ELSE Goto(t, "release", [l EXCEPT !.e = 0, !.k = 0])

\* The scan moves on to the next registry entry; after the last entry the
\* segment's `next` is null and the call returns false.
NextEntry(t, l) ==
    IF l.e < NumThreads
      THEN Goto(t, "scan", [l EXCEPT !.e = l.e + 1, !.k = 0])
      ELSE NotTransferred(t, l)

\* impl Drop for SharedArc, called by the holder on one of its SharedArcs.
DropShared(t, i) ==
    /\ ~crashed /\ UNCHANGED <<cellVars, sideVars>>
    /\ pc[t] = "idle"
    /\ i \in DOMAIN held[t]
    /\ held' = [held EXCEPT ![t] = RemoveAt(@, i)]
    /\ LET a == held[t][i]
           l == [NoLoc EXCEPT !.op = "drop", !.g = a.inner, !.slot = a.slot]
       IN IF a.slot = NullSlot
            THEN Goto(t, "scan", [l EXCEPT !.e = 1])
            ELSE Goto(t, "swap", l)
    /\ UNCHANGED <<inner, arc, strong, alloc, hazards, in_use, next, entry, hand,
                   evicted, released, cas_result, count, crashed>>

\* Variant of SwapSlot: the swapped value is not compared, the responsibility is
\* always passed on or the count dropped.
SwapSlot_Scans(t) ==
    /\ ~crashed /\ UNCHANGED <<cellVars, sideVars>>
    /\ pc[t] = "swap"
    /\ LET s == loc[t].slot IN hazards' = [hazards EXCEPT ![s[1]][s[2]] = 0]
    /\ Goto(t, "scan", [loc[t] EXCEPT !.e = 1, !.k = 0])
    /\ UNCHANGED <<inner, arc, strong, alloc, in_use, next, entry, held, hand,
                   evicted, released, cas_result, count, crashed>>

\* Variant of SwapSlot: the value the swap returns is not compared.
SwapSlot_Ignore(t) ==
    /\ ~crashed /\ UNCHANGED <<cellVars, sideVars>>
    /\ pc[t] = "swap"
    /\ LET s == loc[t].slot IN hazards' = [hazards EXCEPT ![s[1]][s[2]] = 0]
    /\ Continue(t, loc[t])
    /\ UNCHANGED <<inner, arc, strong, alloc, in_use, next, entry, held, hand,
                   evicted, released, cas_result, count, crashed>>

\* if slot.swap(0, SeqCst) != self.inner { try_transfer ... }
SwapSlot(t) ==
    /\ ~crashed /\ UNCHANGED <<cellVars, sideVars>>
    /\ pc[t] = "swap"
    /\ LET s == loc[t].slot IN
         /\ hazards' = [hazards EXCEPT ![s[1]][s[2]] = 0]
         /\ IF hazards[s[1]][s[2]] # loc[t].g
              THEN Goto(t, "scan", [loc[t] EXCEPT !.e = 1, !.k = 0])
              ELSE Continue(t, loc[t])
    /\ UNCHANGED <<inner, arc, strong, alloc, in_use, next, entry, held, hand,
                   evicted, released, cas_result, count, crashed>>

\* Registry::try_transfer_drop_responsibility: entry.in_use.load(SeqCst)
ScanEntry(t) ==
    /\ ~crashed /\ UNCHANGED <<cellVars, sideVars>>
    /\ pc[t] = "scan" /\ loc[t].k = 0
    /\ IF in_use[loc[t].e]
         THEN Goto(t, "scan", [loc[t] EXCEPT !.k = 1])
         ELSE NextEntry(t, loc[t])
    /\ UNCHANGED <<inner, arc, strong, alloc, hazards, in_use, next, entry, held,
                   hand, evicted, released, cas_result, count, crashed>>

\* Variant of ScanSlot: every non-zero hazard is taken for ptr and cleared.
ScanSlot_Any(t) ==
    /\ ~crashed /\ UNCHANGED <<cellVars, sideVars>>
    /\ pc[t] = "scan" /\ loc[t].k > 0
    /\ LET e == loc[t].e
           k == loc[t].k
       IN IF hazards[e][k] # 0
            THEN /\ hazards' = [hazards EXCEPT ![e][k] = 0]
                 /\ held' = Transferred(held, loc[t].g, <<e, k>>)
                 /\ Continue(t, loc[t])
            ELSE /\ UNCHANGED <<hazards, held>>
                 /\ IF k < NumHazards
                      THEN Goto(t, "scan", [loc[t] EXCEPT !.k = k + 1])
                      ELSE NextEntry(t, loc[t])
    /\ UNCHANGED <<inner, arc, strong, alloc, in_use, next, entry, hand,
                   evicted, released, cas_result, count, crashed>>

\* ThreadEntry::try_transfer_drop_responsibility, one hazard per step: the load
\* that sees ptr and the compare_and_swap(ptr, 0) act as one compare-and-swap.
\* Only the NumHazards slots of the registry entry itself are visited.
ScanSlot(t) ==
    /\ ~crashed /\ UNCHANGED <<cellVars, sideVars>>
    /\ pc[t] = "scan" /\ loc[t].k > 0
    /\ LET e == loc[t].e
           k == loc[t].k
       IN IF hazards[e][k] = loc[t].g
            THEN /\ hazards' = [hazards EXCEPT ![e][k] = 0]
                 /\ held' = Transferred(held, loc[t].g, <<e, k>>)
                 /\ Continue(t, loc[t])
            ELSE /\ UNCHANGED <<hazards, held>>
                 /\ IF k < NumHazards
                      THEN Goto(t, "scan", [loc[t] EXCEPT !.k = k + 1])
                      ELSE NextEntry(t, loc[t])
    /\ UNCHANGED <<inner, arc, strong, alloc, in_use, next, entry, hand,
                   evicted, released, cas_result, count, crashed>>

\* `released` after one more drop of a strong count of p.  Drops of a referent
\* that is already freed are counted up to one more than `evicted`.
CountRelease(p) ==
    IF strong[p] = 0 /\ released[p] > evicted[p] THEN released[p] ELSE released[p] + 1

\* drop(Arc::from_raw(ptr)): one strong count less.  On the null pointer the
\* process dies; on a referent that is already freed the behaviour is
\* undefined: the process dies or goes on.
Release(t) ==
    /\ ~crashed /\ UNCHANGED <<cellVars, sideVars>>
    /\ pc[t] = "release"
    /\ LET p == loc[t].g IN
         IF p = 0
           THEN /\ crashed' = TRUE
                /\ UNCHANGED <<strong, released, pc, loc>>
           ELSE /\ released' = [released EXCEPT ![p] = CountRelease(p)]
                /\ IF strong[p] > 0
                     THEN /\ strong' = [strong EXCEPT ![p] = @ - 1]
                          /\ crashed' = FALSE
                          /\ Continue(t, loc[t])
                     ELSE /\ UNCHANGED strong
                          /\ \E dies \in BOOLEAN :
                                /\ crashed' = dies
                                /\ IF dies THEN UNCHANGED <<pc, loc>>
                                           ELSE Continue(t, loc[t])
    /\ UNCHANGED <<inner, arc, alloc, hazards, in_use, next, entry, held, hand,
                   evicted, cas_result, count>>

\* ---- AtomicArc::replace / set / compare_and_set ---------------------------

Evict(old) == IF old = 0 THEN evicted ELSE [evicted EXCEPT ![old] = @ + 1]

\* let old = self.inner.swap(new, SeqCst); SharedArc::new(old, ptr::null())
ReplaceBody(t, v) ==
    /\ ~crashed /\ UNCHANGED <<cellVars, sideVars>>
    /\ pc[t] = "idle" /\ arc = "live"
    /\ Len(held[t]) < MaxHeld
    /\ inner' = IntoRaw(t, v)
    /\ held' = [held EXCEPT ![t] = Append(@, SharedArc_new(inner, NullSlot))]
    /\ evicted' = Evict(inner)
    /\ alloc' = AllocAfter(v)
    /\ strong' = StrongAfter(v)
    /\ hand' = HandAfter(t, v)
    /\ UNCHANGED <<arc, hazards, in_use, next, entry, pc, loc, released,
                   cas_result, crashed>>

replace(t, v) == CanTake(t, v) /\ ReplaceBody(t, v) /\ UNCHANGED count

\* One of the MaxReplace calls `cell.replace(Arc::new(..))` of a thread of the
\* replace-only scenario; the SharedArc of the previous call has been dropped.
ReplaceCounted(t) ==
    /\ count[t] < MaxReplace
    /\ held[t] = <<>>
    /\ ReplaceBody(t, "fresh")
    /\ count' = [count EXCEPT ![t] = @ + 1]

\* One of the MaxReplace calls of replace of a thread that may put a handle
\* made by clone_inner back into the cell.
ReplaceHandle(t, v) ==
    /\ count[t] < MaxReplace
    /\ CanTake(t, v)
    /\ ReplaceBody(t, v)
    /\ count' = [count EXCEPT ![t] = @ + 1]

\* set(val) is self.replace(val) whose SharedArc is dropped before set returns.
set(t, v) ==
    /\ ~crashed /\ UNCHANGED <<cellVars, sideVars>>
    /\ pc[t] = "idle" /\ arc = "live"
    /\ CanTake(t, v)
    /\ inner' = IntoRaw(t, v)
    /\ evicted' = Evict(inner)
    /\ alloc' = AllocAfter(v)
    /\ strong' = StrongAfter(v)
    /\ hand' = HandAfter(t, v)
    /\ Goto(t, "scan", [NoLoc EXCEPT !.op = "set", !.g = inner, !.e = 1])
    /\ UNCHANGED <<arc, hazards, in_use, next, entry, held, released, cas_result,
                   count, crashed>>

\* compare_and_set(&current, new): `new` is turned into a raw word, `current`
\* is the i-th SharedArc the caller holds.
CasCall(t, i, v) ==
    /\ ~crashed /\ UNCHANGED <<cellVars, sideVars>>
    /\ pc[t] = "idle" /\ arc = "live"
    /\ i \in DOMAIN held[t]
    /\ CanTake(t, v)
    /\ v = "fresh" => hand[t] = 0
    /\ alloc' = AllocAfter(v)
    /\ strong' = StrongAfter(v)
    /\ hand' = HandAfter(t, v)
    /\ cas_result' = [cas_result EXCEPT ![t] = NoResult]
    /\ Goto(t, "cas", [NoLoc EXCEPT !.op = "cas", !.cur = i, !.new = IntoRaw(t, v)])
    /\ UNCHANGED <<inner, arc, hazards, in_use, next, entry, held, evicted,
                   released, count, crashed>>

\* Variant of CasHit: the comparison with current.inner is left out.
CasHit_Always(t) == TRUE

\* self.inner.compare_and_swap(old, new, SeqCst) == old, with old = current.inner
CasHit(t) == inner = held[t][loc[t].cur].inner

\* { drop(SharedArc::<T>::new(old, ptr::null())); Ok(()) }: the word is swapped,
\* the drop of the evicted count follows.
CasOk(t) ==
    /\ inner' = loc[t].new
    /\ evicted' = Evict(inner)
    /\ held' = [held EXCEPT ![t][loc[t].cur].cas = TRUE]
    /\ cas_result' = [cas_result EXCEPT ![t] = Ok]
    /\ Goto(t, "scan", [loc[t] EXCEPT !.g = inner, !.e = 1, !.cur = 0, !.new = 0])
    /\ UNCHANGED hand

\* Variant of CasErr: the raw word of `new` is not turned back into a handle.
CasErr_LosesNew(t) ==
    /\ cas_result' = [cas_result EXCEPT ![t] = Err(0)]
    /\ Goto(t, "idle", NoLoc)
    /\ UNCHANGED <<inner, evicted, held, hand>>

\* Err(None) if new == 0, else Err(Some(Arc::from_raw(new)))
CasErr(t) ==
    /\ cas_result' = [cas_result EXCEPT ![t] = Err(loc[t].new)]
    /\ hand' = IF loc[t].new = 0 THEN hand ELSE [hand EXCEPT ![t] = loc[t].new]
    /\ Goto(t, "idle", NoLoc)
    /\ UNCHANGED <<inner, evicted, held>>

\* The compare-and-swap of compare_and_set and the branch it selects.
compare_and_set(t) ==
    /\ ~crashed /\ UNCHANGED <<cellVars, sideVars>>
    /\ pc[t] = "cas"
    /\ IF CasHit(t) THEN CasOk(t) ELSE CasErr(t)
    /\ UNCHANGED <<arc, strong, alloc, hazards, in_use, next, entry, released,
                   count, crashed>>

\* ---- handles --------------------------------------------------------------

\* SharedArc::clone_inner: Arc::from_raw(self.inner).clone(); on a freed
\* referent this reads freed memory: the process dies or goes on.
clone_inner(t, i) ==
    /\ ~crashed /\ UNCHANGED <<cellVars, sideVars>>
    /\ pc[t] = "idle"
    /\ i \in DOMAIN held[t]
    /\ hand[t] = 0
    /\ held[t][i].inner # 0
    /\ LET p == held[t][i].inner IN
         IF strong[p] > 0
           THEN /\ strong' = [strong EXCEPT ![p] = @ + 1]
                /\ hand' = [hand EXCEPT ![t] = p]
                /\ crashed' = FALSE
           ELSE /\ UNCHANGED strong
                /\ \E dies \in BOOLEAN :
                      /\ crashed' = dies
                      /\ hand' = IF dies THEN hand ELSE [hand EXCEPT ![t] = p]
    /\ UNCHANGED <<inner, arc, alloc, hazards, in_use, next, entry, held, pc, loc,
                   evicted, released, cas_result, count>>

\* The caller drops the Arc<T> it holds.
DropHandle(t) ==
    /\ ~crashed /\ UNCHANGED <<cellVars, sideVars>>
    /\ pc[t] = "idle"
    /\ hand[t] # 0
    /\ hand' = [hand EXCEPT ![t] = 0]
    /\ LET p == hand[t] IN
         IF strong[p] > 0
           THEN /\ strong' = [strong EXCEPT ![p] = @ - 1]
                /\ crashed' = FALSE
           ELSE /\ UNCHANGED strong
                /\ crashed' \in BOOLEAN
    /\ UNCHANGED <<inner, arc, alloc, hazards, in_use, next, entry, held, pc, loc,
                   evicted, released, cas_result, count>>

\* ---- AtomicArc::new / into_inner / drop ------------------------------------

\* Variant of into_inner: self is not forgotten, so the caller gets the handle
\* and the destructor of the AtomicArc runs as well.
into_inner_Drops(t) ==
    /\ ~crashed /\ UNCHANGED <<cellVars, sideVars>>
    /\ pc[t] = "idle" /\ arc = "live"
    /\ \A u \in Threads : ~Borrows(u)
    /\ hand[t] = 0
    /\ hand' = [hand EXCEPT ![t] = inner]
    /\ arc' = "taken"
    /\ inner' = 0
    /\ evicted' = Evict(inner)
    /\ Goto(t, "scan", [NoLoc EXCEPT !.op = "arcdrop", !.g = inner, !.e = 1, !.chk = TRUE])
    /\ UNCHANGED <<strong, alloc, hazards, in_use, next, entry, held,
                   released, cas_result, count, crashed>>

\* into_inner(self): the word is read, self is forgotten, the handle returned.
into_inner(t) ==
    /\ ~crashed /\ UNCHANGED <<cellVars, sideVars>>
    /\ pc[t] = "idle" /\ arc = "live"
    /\ \A u \in Threads : ~Borrows(u)
    /\ hand[t] = 0
    /\ hand' = [hand EXCEPT ![t] = inner]
    /\ arc' = "taken"
    /\ inner' = 0
    /\ UNCHANGED <<strong, alloc, hazards, in_use, next, entry, held, pc, loc,
                   evicted, released, cas_result, count, crashed>>

\* impl Drop for AtomicArc: raw = self.inner.load(Relaxed), then
\* try_transfer_drop_responsibility(raw), then drop(Arc::from_raw(raw)) if raw != 0.
DropAtomicArc(t) ==
    /\ ~crashed /\ UNCHANGED <<cellVars, sideVars>>
    /\ pc[t] = "idle" /\ arc = "live"
    /\ \A u \in Threads : ~Borrows(u)
    /\ arc' = "dropped"
    /\ inner' = 0
    /\ evicted' = Evict(inner)
    /\ Goto(t, "scan", [NoLoc EXCEPT !.op = "arcdrop", !.g = inner, !.e = 1, !.chk = TRUE])
    /\ UNCHANGED <<strong, alloc, hazards, in_use, next, entry, held, hand,
                   released, cas_result, count, crashed>>

\* AtomicArc::new(val), once the previous AtomicArc is gone.
new(t, v) ==
    /\ ~crashed /\ UNCHANGED <<cellVars, sideVars>>
    /\ pc[t] = "idle" /\ arc # "live"
    /\ CanTake(t, v)
    /\ arc' = "live"
    /\ inner' = IntoRaw(t, v)
    /\ alloc' = AllocAfter(v)
    /\ strong' = StrongAfter(v)
    /\ hand' = HandAfter(t, v)
    /\ UNCHANGED <<hazards, in_use, next, entry, held, pc, loc, evicted, released,
                   cas_result, count, crashed>>

\* ---- specifications --------------------------------------------------------

\* The complete next-state relation: every thread may call every method.  The
\* specifications that follow restrict which thread calls which method.
Next ==
    \E t \in Threads :
          \/ GetCall(t)
          \/ register(t)
          \/ allocate_hazard_slot(t)
          \/ GetLoad(t)
          \/ GetPublish(t)
          \/ GetReload(t)
          \/ \E i \in 1..MaxHeld : DropShared(t, i)
          \/ SwapSlot(t)
          \/ ScanEntry(t)
          \/ ScanSlot(t)
          \/ Release(t)
          \/ \E v \in ValKinds : replace(t, v)
          \/ \E v \in ValKinds : set(t, v)
          \/ \E i \in 1..MaxHeld, v \in ValKinds : CasCall(t, i, v)
          \/ compare_and_set(t)
          \/ \E i \in 1..MaxHeld : clone_inner(t, i)
          \/ DropHandle(t)
          \/ into_inner(t)
          \/ DropAtomicArc(t)
          \/ \E v \in ValKinds : new(t, v)

Spec == Init /\ [][Next]_vars

\* ---- one reader, the other threads write ----------------------------------
Readers == {1}
Writers == Threads \ Readers
Fresh == {"none", "fresh"}

\* The reader calls get and drops what it got; the writers call replace and
\* drop what replace returned.
NextRW ==
    \/ \E t \in Readers : GetCall(t)
    \/ \E t \in Readers : register(t)
    \/ \E t \in Readers : allocate_hazard_slot(t)
    \/ \E t \in Readers : GetLoad(t)
    \/ \E t \in Readers : GetPublish(t)
    \/ \E t \in Readers : GetReload(t)
    \/ \E t \in Writers, v \in Fresh : replace(t, v)
    \/ \E t \in Threads, i \in 1..MaxHeld : DropShared(t, i)
    \/ \E t \in Threads : SwapSlot(t)
    \/ \E t \in Threads : ScanEntry(t)
    \/ \E t \in Threads : ScanSlot(t)
    \/ \E t \in Threads : Release(t)

SpecRW == Init /\ [][NextRW]_vars

\* ---- every thread replaces, nobody reads ------------------------------------
\* The cell starts non-empty; no thread calls get, so no thread registers and
\* no hazard slot is ever visited.
InitFull == Init /\ inner # 0

NextReplace ==
    \/ \E t \in Threads : ReplaceCounted(t)
    \/ \E t \in Threads, i \in 1..MaxHeld : DropShared(t, i)
    \/ \E t \in Threads : ScanEntry(t)
    \/ \E t \in Threads : Release(t)

SpecReplace == InitFull /\ [][NextReplace]_vars

\* ---- get, compare_and_set and set -------------------------------------------
NextCas ==
    \/ \E t \in Readers : GetCall(t)
    \/ \E t \in Readers : register(t)
    \/ \E t \in Readers : allocate_hazard_slot(t)
    \/ \E t \in Readers : GetLoad(t)
    \/ \E t \in Readers : GetPublish(t)
    \/ \E t \in Readers : GetReload(t)
    \/ \E t \in Readers, i \in 1..MaxHeld, v \in ValKinds : CasCall(t, i, v)
    \/ \E t \in Readers : compare_and_set(t)
    \/ \E t \in Readers : DropHandle(t)
    \/ \E t \in Writers, v \in Fresh : set(t, v)
    \/ \E t \in Threads, i \in 1..MaxHeld : DropShared(t, i)
    \/ \E t \in Threads : SwapSlot(t)
    \/ \E t \in Threads : ScanEntry(t)
    \/ \E t \in Threads : ScanSlot(t)
    \/ \E t \in Threads : Release(t)

SpecCas == Init /\ [][NextCas]_vars

\* ---- the owner consumes, drops and re-creates the AtomicArc -----------------
NextOwner ==
    \/ \E t \in Readers : GetCall(t)
    \/ \E t \in Readers : register(t)
    \/ \E t \in Readers : allocate_hazard_slot(t)
    \/ \E t \in Readers : GetLoad(t)
    \/ \E t \in Readers : GetPublish(t)
    \/ \E t \in Readers : GetReload(t)
    \/ \E t \in Threads : into_inner(t)
    \/ \E t \in Threads : DropAtomicArc(t)
    \/ \E t \in Threads, v \in ValKinds : new(t, v)
    \/ \E t \in Threads : DropHandle(t)
    \/ \E t \in Threads, i \in 1..MaxHeld : DropShared(t, i)
    \/ \E t \in Threads : SwapSlot(t)
    \/ \E t \in Threads : ScanEntry(t)
    \/ \E t \in Threads : ScanSlot(t)
    \/ \E t \in Threads : Release(t)

SpecOwner == Init /\ [][NextOwner]_vars

\* ---- properties -------------------------------------------------------------

\* SharedArcs that get returned: they carry a hazard slot.
FromGet(a) == a.slot # NullSlot

\* C1: under get by the reader and replace (and the drop of what replace
\* returned) by the writers, the referent of every non-empty SharedArc that get
\* returned is not freed for as long as the reader holds the SharedArc.
C1_ReaderSeesLive ==
    \A t \in Readers : \A i \in DOMAIN held[t] :
        (FromGet(held[t][i]) /\ held[t][i].inner # 0) => ~Freed(held[t][i].inner)

\* No SharedArc refers to p and no thread is inside a method.
Settled(p) ==
    /\ \A t \in Threads : pc[t] = "idle"
    /\ \A t \in Threads : \A i \in DOMAIN held[t] : held[t][i].inner # p

\* C2: the strong count the cell held for an evicted pointer is dropped at most
\* once per eviction, and exactly once when every SharedArc that refers to the
\* pointer has been dropped.
C2_DroppedExactlyOnce ==
    \A p \in Ptrs :
        /\ released[p] <= evicted[p]
        /\ Settled(p) => released[p] = evicted[p]

InCell(p) == IF arc = "live" /\ inner = p THEN 1 ELSE 0
Undischarged(p) == IF evicted[p] >= released[p] THEN evicted[p] - released[p] ELSE 0
Handles(p) ==
    Cardinality({t \in Threads : hand[t] = p})
      + Cardinality({t \in Threads : pc[t] = "cas" /\ loc[t].new = p})

\* C5: the strong count of every referent is the count of the cell that stores
\* it, plus the evicted counts not yet dropped, plus the handles callers hold.
C5_StrongCount ==
    \A p \in Ptrs : p <= alloc => strong[p] = InCell(p) + Undischarged(p) + Handles(p)

\* ---- C3 ----
Joined ==
    \A t \in Threads : count[t] = MaxReplace /\ pc[t] = "idle" /\ held[t] = <<>>
Destroyed == {p \in Ptrs : Freed(p)}

\* C3: when every thread has called replace MaxReplace times with a fresh
\* handle, dropping each returned SharedArc at once, and all have finished, the
\* destructor has run NumThreads * MaxReplace times, no payload twice, and the
\* only payload not destroyed is the one in the cell.
C3_ReplaceNoLeak ==
    Joined =>
        /\ Cardinality(Destroyed) = NumThreads * MaxReplace
        /\ \A p \in Ptrs : released[p] <= 1
        /\ alloc = NumThreads * MaxReplace + 1
        /\ \A p \in 1..alloc : ~Freed(p) <=> inner = p

C3_Witness == Joined /\ ~crashed /\ Cardinality(Destroyed) > 0

\* ---- C4 ----
HazardOf(a) == hazards[a.slot[1]][a.slot[2]]

\* C4: while a thread holds a SharedArc whose hazard slot contains its non-zero
\* inner pointer, the referent of that pointer is not freed.
C4_HazardProtects ==
    \A t \in Threads : \A i \in DOMAIN held[t] :
        (FromGet(held[t][i]) /\ held[t][i].inner # 0
            /\ HazardOf(held[t][i]) = held[t][i].inner) => ~Freed(held[t][i].inner)

\* ---- C6 ----
\* C6: after a compare_and_set succeeded with a non-empty `current` that came
\* from get, the referent of `current` is not freed while the caller still
\* holds `current`.
C6_CurrentStaysLive ==
    \A t \in Threads : \A i \in DOMAIN held[t] :
        (held[t][i].cas /\ FromGet(held[t][i]) /\ held[t][i].inner # 0)
            => ~Freed(held[t][i].inner)

\* ---- C7, C8 ----
\* The step in which thread t executes the compare-and-swap of compare_and_set.
CasStep(t) == pc[t] = "cas" /\ pc'[t] # "cas"
CasCurrent(t) == held[t][loc[t].cur].inner

\* C7: a compare_and_set that finds the word different from current.inner
\* leaves the word, every strong count and every hazard slot as they are and
\* returns Err with the handle it was given (Err(None) for an empty one), which
\* the caller holds again.
C7_CasFailure ==
    [][\A t \in Threads :
          (CasStep(t) /\ inner # CasCurrent(t)) =>
              /\ inner' = inner
              /\ strong' = strong
              /\ released' = released /\ evicted' = evicted
              /\ hazards' = hazards
              /\ held' = held
              /\ cas_result'[t] = Err(loc[t].new)
              /\ loc[t].new # 0 => hand'[t] = loc[t].new
              /\ pc'[t] = "idle"]_vars

C7_Witness ==
    \E t \in Threads :
        /\ pc[t] = "idle" /\ cas_result[t].res = "err" /\ cas_result[t].handle # 0
        /\ hand[t] = cas_result[t].handle /\ strong[hand[t]] = 1

\* C8: compare_and_set takes the Ok branch exactly when the word equals
\* current.inner at its compare-and-swap; the cell then holds `new`, whose
\* strong count stays with the cell (it is neither dropped nor handed back).
C8_CasSuccess ==
    [][\A t \in Threads :
          CasStep(t) =>
              /\ cas_result'[t].res \in {"ok", "err"}
              /\ (cas_result'[t].res = "ok") <=> (inner = CasCurrent(t))
              /\ cas_result'[t].res = "ok" =>
                    /\ inner' = loc[t].new
                    /\ hand' = hand
                    /\ strong' = strong]_vars

C8_Witness ==
    \E t \in Threads :
        /\ cas_result[t].res = "ok" /\ pc[t] = "scan" /\ loc[t].op = "cas"
        /\ inner # 0 /\ strong[inner] = 1

\* ---- C9 ----
\* C9: AtomicArc::drop releases the strong count of its pointer itself only
\* when the pointer is not null and no hazard slot of an in-use thread holds
\* it, and the count of a dropped AtomicArc is never released twice.
C9_DropHandsOver ==
    /\ \A t \in Threads :
          (pc[t] = "release" /\ loc[t].op = "arcdrop") =>
              /\ loc[t].g # 0
              /\ ~\E e \in Entries, k \in Slots : in_use[e] /\ hazards[e][k] = loc[t].g
    /\ \A p \in Ptrs : evicted[p] >= 1 => released[p] <= evicted[p]

\* ---- C10 ----
IntoInnerStep == arc = "live" /\ arc' = "taken"
NewStep == arc # "live" /\ arc' = "live"

\* C10: into_inner hands the word of the cell to the caller as a handle and
\* changes no strong count, no hazard slot and no thread's position (the
\* destructor of the cell does not start, and never runs on the consumed
\* cell); new stores exactly the handle it is given.
C10_IntoInner ==
    [][/\ IntoInnerStep =>
            /\ \E t \in Threads : hand[t] = 0 /\ hand' = [hand EXCEPT ![t] = inner]
            /\ strong' = strong
            /\ released' = released /\ evicted' = evicted
            /\ hazards' = hazards
            /\ pc' = pc
       /\ arc = "taken" => arc' \in {"taken", "live"}
       /\ NewStep =>
            \/ inner' = 0 /\ hand' = hand /\ strong' = strong
            \/ \E t \in Threads :
                  /\ hand[t] # 0 /\ inner' = hand[t]
                  /\ hand' = [hand EXCEPT ![t] = 0] /\ strong' = strong
            \/ /\ inner' = alloc + 1 /\ hand' = hand
               /\ strong' = [strong EXCEPT ![alloc + 1] = 1]]_vars

C10_Witness ==
    arc = "taken" /\ \E t \in Threads : hand[t] # 0 /\ strong[hand[t]] = 1

\* ==== AtomicCell (src/src/atomic_cell.rs) =======================================
\* A method on the atomic path is one step.  On the lock path the stripe lock
\* is taken, the bytes of the cell are read and written one per step, the
\* LockGuard is dropped, and the method goes on in a step of its own.

\* lock(addr): &LOCKS[addr % LEN]
Stripe(a) == a % LEN

\* Which branch of the dispatch a primitive takes: add / sub decide with the
\* test of impl_arithmetic!, the others with atomic!.
LockFree(l) ==
    IF l.prim \in {"add", "sub"} THEN arithmetic_is_atomic(ty) ELSE atomic(ty) # 0

\* Variant of Effect: the swap returns the value it stores.
Effect_SwapReturnsNew(l, c) ==
    IF l.prim = "swap" THEN [prev |-> l.val, nv |-> l.val, w |-> 1]
                       ELSE [prev |-> c, nv |-> IF l.prim = "store" THEN l.val ELSE c,
                             w |-> 0]

\* What a primitive of the dispatch layer does to content c as one atomic
\* instruction: the content afterwards (nv), what it returns (prev), and
\* whether it writes (w).
Effect(l, c) ==
    CASE l.prim = "load" -> [prev |-> c, nv |-> c, w |-> 0]
      [] l.prim = "store" -> [prev |-> <<>>, nv |-> l.val, w |-> 1]
      [] l.prim = "swap" -> [prev |-> c, nv |-> l.val, w |-> 1]
      [] l.prim = "cas" ->
            IF c = l.current THEN [prev |-> c, nv |-> l.new, w |-> 1]
                             ELSE [prev |-> c, nv |-> c, w |-> 0]
      [] l.prim = "add" ->
            [prev |-> wrapping_add(c, l.val, ty.size),
             nv |-> wrapping_add(c, l.val, ty.size), w |-> 1]
      [] l.prim = "sub" ->
            [prev |-> wrapping_sub(c, l.val, ty.size),
             nv |-> wrapping_sub(c, l.val, ty.size), w |-> 1]

\* a.fetch_add(val as usize, SeqCst).wrapping_add(val as usize) as $t on the
\* cell seen as an AtomicUsize (the two-argument form of impl_arithmetic!).
FetchUsize(l, c) ==
    LET v == as_usize(ty, l.val)
        r == IF l.prim = "add" THEN wrapping_add(c, v, usize.size)
                               ELSE wrapping_sub(c, v, usize.size)
    IN [prev |-> as_t(ty, r), nv |-> r, w |-> 1]

\* The atomic branch of a primitive.
AtomicEffect(l, c) ==
    IF l.prim \in {"add", "sub"} /\ ~(ty \in {usize, isize} \/ nightly)
      THEN FetchUsize(l, c)
      ELSE Effect(l, c)

\* Variant of atomic_swap_drops: mem::forget(val) is left out, the destructor
\* of val runs at the end of the block.
atomic_swap_drops_val(T) == IF needs_drop(T) THEN 1 ELSE 0

\* Destructor runs inside the atomic branch of atomic_swap: the bytes of val
\* were copied into the cell and mem::forget(val) keeps its destructor from
\* running, res goes to the caller.
atomic_swap_drops(T) == 0

\* Other threads that are inside update, between its read and its successful
\* compare-and-swap, or inside compare_and_set after its first compare-and-swap,
\* see one more change of the cell.
Seen(cl, t, changed) ==
    [u \in Threads |->
        IF u # t /\ changed /\ cl[u].open
          THEN [cl[u] EXCEPT !.changes = @ + 1]
          ELSE cl[u]]

\* The method returns r.
Return(t, l, r, changed) ==
    /\ cpc' = [cpc EXCEPT ![t] = "idle"]
    /\ cloc' = Seen([cloc EXCEPT ![t] = NoCLoc], t, changed)
    /\ ret' = [ret EXCEPT ![t] =
                  [op |-> l.op, val |-> r.val, flag |-> r.flag, arg |-> l.arg,
                   orig |-> l.orig, new |-> l.new, at |-> l.at, after |-> l.after,
                   calls |-> l.calls, wrote |-> l.wrote, attempts |-> l.attempts,
                   changes |-> l.changes, want |-> l.want, f |-> l.f]]

\* Variant of Again: `current = previous` is left out, the next
\* compare-and-swap runs with the `current` of the one before.
Again_KeepsCurrent(t, l, changed) ==
    /\ cpc' = [cpc EXCEPT ![t] = "cas"]
    /\ cloc' = Seen([cloc EXCEPT ![t] = [l EXCEPT !.prim = "cas", !.tmp = <<>>, !.k = 0,
                                                  !.current = cloc[t].current]],
                    t, changed)
    /\ UNCHANGED ret

\* The method goes on to (another) atomic_compare_and_swap with locals l.
Again(t, l, changed) ==
    /\ cpc' = [cpc EXCEPT ![t] = "cas"]
    /\ cloc' = Seen([cloc EXCEPT ![t] = [l EXCEPT !.prim = "cas", !.tmp = <<>>, !.k = 0]],
                    t, changed)
    /\ UNCHANGED ret

\* A primitive of the dispatch layer has returned `prev` to the method l.op;
\* `path` is the branch it took, l.made the payloads the call constructed that
\* are not counted in CNT yet.
Finish(t, l, prev, path, changed) ==
    CASE l.op = "get" ->
            /\ Return(t, l, [val |-> prev, flag |-> FALSE], changed)
            /\ UNCHANGED <<CNT, owned>>
      [] l.op = "set" ->
            \* drop(self.replace(val)) if needs_drop, else atomic_store
            /\ Return(t, l, [val |-> <<>>, flag |-> FALSE], changed)
            /\ CNT' = CNT + l.made - (IF needs_drop(ty) THEN 1 ELSE 0)
                          - (IF path = "atomic" THEN atomic_swap_drops(ty) ELSE 0)
            /\ UNCHANGED owned
      [] l.op \in {"replace", "take"} ->
            /\ Return(t, l, [val |-> prev, flag |-> FALSE], changed)
            /\ CNT' = CNT + l.made
                          - (IF path = "atomic" THEN atomic_swap_drops(ty) ELSE 0)
            /\ owned' = [owned EXCEPT ![t] = @ + (IF needs_drop(ty) THEN 1 ELSE 0)]
      [] l.op = "update" ->
            /\ IF l.prim = "load"
                 THEN \* let mut current = self.get(); let new = f(current)
                      Again(t, [l EXCEPT !.current = prev, !.new = Apply(l.f, prev, ty),
                                         !.calls = 1], changed)
                 ELSE IF byte_eq(prev, l.current)
                        THEN Return(t, l, [val |-> l.new, flag |-> TRUE], changed)
                        ELSE \* current = previous; let new = f(current)
                             Again(t, [l EXCEPT !.current = prev,
                                                !.new = Apply(l.f, prev, ty),
                                                !.calls = @ + 1], changed)
            /\ UNCHANGED <<CNT, owned>>
      [] l.op = "compare_and_set" ->
            /\ IF byte_eq(prev, l.current)
                 THEN Return(t, l, [val |-> <<>>, flag |-> TRUE], changed)
                 ELSE IF ne(ty, prev, l.current)
                        THEN Return(t, l, [val |-> <<>>, flag |-> FALSE], changed)
                        ELSE Again(t, [l EXCEPT !.current = prev], changed)
            /\ UNCHANGED <<CNT, owned>>
      [] l.op \in {"add", "sub"} ->
            /\ Return(t, l, [val |-> prev, flag |-> FALSE], changed)
            /\ UNCHANGED <<CNT, owned>>

\* History of a primitive at the instant it takes effect on content c.
AtEffect(l, c, e) ==
    [l EXCEPT !.at = c, !.after = e.nv, !.expect = e.prev,
              !.attempts = @ + (IF l.prim = "cas" THEN 1 ELSE 0),
              !.open = IF l.op = "compare_and_set" THEN TRUE
                       ELSE IF l.op # "update" THEN FALSE
                       ELSE IF l.prim = "load" THEN TRUE
                       ELSE IF e.w = 1 THEN FALSE ELSE @]

\* Run the primitive l.prim for thread t: on the atomic branch it is one
\* instruction, on the fallback branch the thread goes to take the lock.
Primitive(t, l) ==
    IF LockFree(l)
      THEN LET e == AtomicEffect(l, value)
               m == [AtEffect(l, value, e) EXCEPT !.wrote = @ + e.w]
           IN /\ value' = e.nv
              /\ reg' = e.nv
              /\ Finish(t, m, e.prev, "atomic", e.nv # value)
              /\ UNCHANGED <<LOCKS, guard>>
      ELSE /\ cpc' = [cpc EXCEPT ![t] = "lock"]
           /\ cloc' = [cloc EXCEPT ![t] = [l EXCEPT !.made = 0]]
           /\ CNT' = CNT + l.made
           /\ UNCHANGED <<value, reg, LOCKS, guard, ret, owned>>

\* A thread calls a method of the live cell.
Calls(t) ==
    /\ cpc[t] = "idle" /\ cell = "live"
    /\ ops[t] < MaxOps
    /\ ops' = [ops EXCEPT ![t] = @ + 1]
    /\ UNCHANGED <<nightly, ty, addr, cell>>
    /\ UNCHANGED <<arcVars, sideVars>>

\* The plain cell after thread t has stored v: it follows the calls as long as
\* t is the only caller, and is void (no value of the type) from then on.  add
\* and sub commute, so the plain cell follows them whoever calls.
Alone(t) == \A u \in Threads \ {t} : ops[u] = 0
Plain(t, v) == IF Alone(t) THEN v ELSE <<0>> \o Default(ty)

\* Foo::new: one more live payload when the payload is counted.
Made(T) == IF needs_drop(T) THEN 1 ELSE 0

\* get(): atomic_load(self.value.get()); T: Copy
CellGet(t) ==
    /\ Calls(t)
    /\ ~needs_drop(ty)
    /\ Primitive(t, [NoCLoc EXCEPT !.op = "get", !.prim = "load", !.want = plain])
    /\ UNCHANGED plain

\* set(val): drop(self.replace(val)) if mem::needs_drop::<T>(), else
\* atomic_store(self.value.get(), val)
CellSet(t, v) ==
    /\ Calls(t)
    /\ Primitive(t, [NoCLoc EXCEPT !.op = "set", !.arg = v, !.val = v,
                                   !.made = Made(ty),
                                   !.prim = IF needs_drop(ty) THEN "swap" ELSE "store"])
    /\ plain' = Plain(t, v)

\* replace(val): atomic_swap(self.value.get(), val)
CellReplace(t, v) ==
    /\ Calls(t)
    /\ Primitive(t, [NoCLoc EXCEPT !.op = "replace", !.arg = v, !.val = v,
                                   !.made = Made(ty), !.prim = "swap",
                                   !.want = plain])
    /\ plain' = Plain(t, v)

\* take(): self.replace(T::default())
CellTake(t) ==
    /\ Calls(t)
    /\ Primitive(t, [NoCLoc EXCEPT !.op = "take", !.arg = Default(ty),
                                   !.val = Default(ty), !.made = Made(ty),
                                   !.prim = "swap", !.want = plain])
    /\ plain' = Plain(t, Default(ty))

\* update(f): let mut current = self.get(); the loop follows at "cas".
CellUpdate(t, f) ==
    /\ Calls(t)
    /\ ~needs_drop(ty)
    /\ Primitive(t, [NoCLoc EXCEPT !.op = "update", !.f = f, !.prim = "load"])
    /\ plain' = Plain(t, plain)

\* compare_and_set(current, new), up to its first atomic_compare_and_swap;
\* T: Copy + Eq
CellCompareAndSet(t, c, n) ==
    /\ Calls(t)
    /\ ~needs_drop(ty)
    /\ Primitive(t, [NoCLoc EXCEPT !.op = "compare_and_set", !.prim = "cas",
                                   !.orig = c, !.current = c, !.new = n])
    /\ plain' = Plain(t, plain)

\* The next atomic_compare_and_swap(self.value.get(), current, new) of the
\* loop of update or compare_and_set.
CompareAndSwap(t) ==
    /\ cpc[t] = "cas"
    /\ Primitive(t, cloc[t])
    /\ UNCHANGED <<nightly, ty, addr, cell, ops, plain>>
    /\ UNCHANGED <<arcVars, sideVars>>

\* add(val) of impl_arithmetic!
CellAdd(t, v) ==
    /\ Calls(t)
    /\ ty \in IntTypes
    /\ Primitive(t, [NoCLoc EXCEPT !.op = "add", !.prim = "add", !.arg = v, !.val = v])
    /\ plain' = IF Len(plain) = ty.size THEN wrapping_add(plain, v, ty.size) ELSE plain

\* sub(val) of impl_arithmetic!
CellSub(t, v) ==
    /\ Calls(t)
    /\ ty \in IntTypes
    /\ Primitive(t, [NoCLoc EXCEPT !.op = "sub", !.prim = "sub", !.arg = v, !.val = v])
    /\ plain' = IF Len(plain) = ty.size THEN wrapping_sub(plain, v, ty.size) ELSE plain

\* ---- the striped lock table and the fallback branches ---------------------------

\* Variant of Free: the compare_and_swap is taken to succeed whatever the lock holds.
Free_Always(i) == TRUE

\* lock.compare_and_swap(false, true, Acquire) returns false: the lock was free.
Free(i) == i \notin LOCKS

\* lock(addr): the compare_and_swap on &LOCKS[addr % LEN] that finds the lock
\* free; while it finds it taken the thread spins.  The primitive takes effect
\* on the register here.
lock(t) ==
    /\ cpc[t] = "lock"
    /\ Free(Stripe(addr))
    /\ LOCKS' = LOCKS \cup {Stripe(addr)}
    /\ guard' = [guard EXCEPT ![t] = Stripe(addr)]
    /\ LET l == cloc[t]
           e == Effect(l, reg)
       IN /\ reg' = e.nv
          /\ cpc' = [cpc EXCEPT ![t] = IF l.prim = "store" THEN "write" ELSE "read"]
          /\ cloc' = Seen([cloc EXCEPT ![t] = AtEffect(l, reg, e)], t, e.nv # reg)
    /\ UNCHANGED <<nightly, ty, addr, value, cell, ret, ops, plain, CNT, owned>>
    /\ UNCHANGED <<arcVars, sideVars>>

\* What follows the read of all bytes of the cell (into tmp) under the lock.
AfterRead(l) ==
    CASE l.prim = "load" ->
            \* ptr::read(src)
            [pc |-> "unlock", l |-> [l EXCEPT !.previous = l.tmp]]
      [] l.prim = "swap" ->
            \* ptr::replace(dst, val)
            [pc |-> "write", l |-> [l EXCEPT !.previous = l.tmp]]
      [] l.prim = "cas" ->
            \* if byte_eq(&*dst, &current) { ptr::replace(dst, new) } else { ptr::read(dst) }
            IF byte_eq(l.tmp, l.current)
              THEN [pc |-> "write", l |-> [l EXCEPT !.previous = l.tmp, !.val = l.new]]
              ELSE [pc |-> "unlock", l |-> [l EXCEPT !.previous = l.tmp]]
      [] l.prim = "add" ->
            \* *value = value.wrapping_add(val); *value
            LET r == wrapping_add(l.tmp, l.val, ty.size)
            IN [pc |-> "write", l |-> [l EXCEPT !.previous = r, !.val = r]]
      [] l.prim = "sub" ->
            \* *value = value.wrapping_sub(val); *value
            LET r == wrapping_sub(l.tmp, l.val, ty.size)
            IN [pc |-> "write", l |-> [l EXCEPT !.previous = r, !.val = r]]

\* One byte of the cell is copied out under the lock.
ReadByte(t) ==
    /\ cpc[t] = "read"
    /\ LET l == [cloc[t] EXCEPT !.tmp = Append(@, value[Len(@) + 1])]
       IN IF Len(l.tmp) < ty.size
            THEN /\ cloc' = [cloc EXCEPT ![t] = l]
                 /\ UNCHANGED cpc
            ELSE /\ cloc' = [cloc EXCEPT ![t] = AfterRead(l).l]
                 /\ cpc' = [cpc EXCEPT ![t] = AfterRead(l).pc]
    /\ UNCHANGED <<nightly, ty, addr, value, cell, LOCKS, guard, ret, ops, reg,
                   plain, CNT, owned>>
    /\ UNCHANGED <<arcVars, sideVars>>

\* Writes of the method to the cell, counted at the first byte of each.
Wrote(l) == IF l.k = 0 THEN l.wrote + 1 ELSE l.wrote

\* One byte of val is copied into the cell under the lock.
WriteByte(t) ==
    /\ cpc[t] = "write"
    /\ LET l == cloc[t]
           k == l.k + 1
       IN /\ value' = [value EXCEPT ![k] = l.val[k]]
          /\ IF k < ty.size
               THEN /\ cloc' = [cloc EXCEPT ![t] = [l EXCEPT !.k = k, !.wrote = Wrote(l)]]
                    /\ UNCHANGED cpc
               ELSE /\ cloc' = [cloc EXCEPT ![t] = [l EXCEPT !.k = k, !.wrote = Wrote(l)]]
                    /\ cpc' = [cpc EXCEPT ![t] = "unlock"]
    /\ UNCHANGED <<nightly, ty, addr, cell, LOCKS, guard, ret, ops, reg, plain,
                   CNT, owned>>
    /\ UNCHANGED <<arcVars, sideVars>>

\* Variant of LockGuard_drop: the guard is forgotten, the lock stays taken
\* while the method goes on.
LockGuard_forget(t) ==
    /\ cpc[t] = "unlock"
    /\ cpc' = [cpc EXCEPT ![t] = "ret"]
    /\ UNCHANGED <<nightly, ty, addr, value, cell, LOCKS, guard, cloc, ret, ops, reg,
                   plain, CNT, owned>>
    /\ UNCHANGED <<arcVars, sideVars>>

\* impl Drop for LockGuard: self.lock.store(false, Release), at the end of the
\* fallback block; the primitive then returns its result to the method.
LockGuard_drop(t) ==
    /\ cpc[t] = "unlock"
    /\ LOCKS' = LOCKS \ {guard[t]}
    /\ guard' = [guard EXCEPT ![t] = NoGuard]
    /\ cpc' = [cpc EXCEPT ![t] = "ret"]
    /\ UNCHANGED <<nightly, ty, addr, value, cell, cloc, ret, ops, reg, plain,
                   CNT, owned>>
    /\ UNCHANGED <<arcVars, sideVars>>

\* The method goes on with what the fallback branch of its primitive returned:
\* drop(old), f(current), previous != current, and its return.
AfterFallback(t) ==
    /\ cpc[t] = "ret"
    /\ Finish(t, cloc[t], cloc[t].previous, "fallback", FALSE)
    /\ UNCHANGED <<nightly, ty, addr, value, cell, LOCKS, guard, ops, reg, plain>>
    /\ UNCHANGED <<arcVars, sideVars>>

\* The user-provided code the method runs next, after the fallback branch of
\* its primitive has returned `prev`: the closure of update, the != of the
\* payload in compare_and_set, the destructor of the value set replaced.
UserCode(l, prev) ==
    CASE l.op = "update" /\ (l.prim = "load" \/ ~byte_eq(prev, l.current)) -> "f"
      [] l.op = "compare_and_set" /\ ~byte_eq(prev, l.current) -> "ne"
      [] l.op = "set" /\ needs_drop(ty) -> "drop"
      [] OTHER -> "none"

\* That user-provided code panics: the method unwinds to its caller; the value
\* whose destructor panicked is gone.
Panic(t) ==
    /\ cpc[t] = "ret"
    /\ UserCode(cloc[t], cloc[t].previous) # "none"
    /\ cpc' = [cpc EXCEPT ![t] = "idle"]
    /\ cloc' = [cloc EXCEPT ![t] = NoCLoc]
    /\ ret' = [ret EXCEPT ![t] = [NoRet EXCEPT !.op = "panic"]]
    /\ CNT' = CNT - (IF cloc[t].op = "set" THEN 1 ELSE 0)
    /\ UNCHANGED <<nightly, ty, addr, value, cell, LOCKS, guard, ops, reg, plain,
                   owned>>
    /\ UNCHANGED <<arcVars, sideVars>>

\* ---- owning the cell and the payloads --------------------------------------------

\* The caller drops a payload that replace or take returned.
DropOwned(t) ==
    /\ cpc[t] = "idle"
    /\ owned[t] > 0
    /\ owned' = [owned EXCEPT ![t] = @ - 1]
    /\ CNT' = CNT - 1
    /\ UNCHANGED <<nightly, ty, addr, value, cell, LOCKS, guard, cpc, cloc, ret,
                   ops, reg, plain>>
    /\ UNCHANGED <<arcVars, sideVars>>

\* drop(a): the UnsafeCell drops the value it holds.  The cell is owned, so no
\* method is running.
CellDrop(t) ==
    /\ \A u \in Threads : cpc[u] = "idle"
    /\ cell = "live"
    /\ cell' = "dropped"
    /\ CNT' = CNT - (IF needs_drop(ty) THEN 1 ELSE 0)
    /\ UNCHANGED <<nightly, ty, addr, value, LOCKS, guard, cpc, cloc, ret, ops,
                   reg, plain, owned>>
    /\ UNCHANGED <<arcVars, sideVars>>

\* AtomicCell::new(val) at the same address, once the previous cell is gone.
CellNew(t, v) ==
    /\ cpc[t] = "idle" /\ cell = "dropped"
    /\ ops[t] < MaxOps
    /\ ops' = [ops EXCEPT ![t] = @ + 1]
    /\ cell' = "live"
    /\ value' = v /\ reg' = v /\ plain' = v
    /\ CNT' = CNT + Made(ty)
    /\ UNCHANGED <<nightly, ty, addr, LOCKS, guard, cpc, cloc, ret, owned>>
    /\ UNCHANGED <<arcVars, sideVars>>

\* ---- specifications of the AtomicCell ---------------------------------------------

\* A live cell of payload type T holding some value, at some address; the
\* AtomicArc is not used.
CellInit(Ts, As) ==
    /\ ArcInit /\ inner = 0
    /\ nightly \in BOOLEAN
    /\ ty \in Ts
    /\ addr \in As
    /\ value \in Samples(ty)
    /\ reg = value /\ plain = value
    /\ cell = "live"
    /\ LOCKS = {}
    /\ guard = [t \in Threads |-> NoGuard]
    /\ cpc = [t \in Threads |-> "idle"]
    /\ cloc = [t \in Threads |-> NoCLoc]
    /\ ret = [t \in Threads |-> NoRet]
    /\ ops = [t \in Threads |-> 0]
    /\ CNT = Made(ty)
    /\ owned = [t \in Threads |-> 0]

\* ---- one caller: get, set, replace, take -------------------------------------------
Single == {1}
SerialTypes == {u8, ModU16, ModUsize}

NextSerial ==
    \/ \E t \in Single : CellGet(t)
    \/ \E t \in Single, v \in Samples(ty) : CellSet(t, v)
    \/ \E t \in Single, v \in Samples(ty) : CellReplace(t, v)
    \/ \E t \in Single : CellTake(t)
    \/ \E t \in Single : lock(t)
    \/ \E t \in Single : ReadByte(t)
    \/ \E t \in Single : WriteByte(t)
    \/ \E t \in Single : LockGuard_drop(t)
    \/ \E t \in Single : AfterFallback(t)

SpecSerial == CellInit(SerialTypes, {0}) /\ [][NextSerial]_vars

\* C11: with one caller, what get, replace and take return is what a plain
\* sequential cell returns for the same calls (get the last value stored,
\* replace and take the previous value), and between calls the cell holds what
\* the plain cell holds (v after set(v) and replace(v), T::default() after take).
C11_SerialCell ==
    \A t \in Single :
        cpc[t] = "idle" =>
            /\ value = plain
            /\ ret[t].op \in {"get", "replace", "take"} => ret[t].val = ret[t].want
            /\ ret[t].op \in {"set", "replace"} => value = ret[t].arg
            /\ ret[t].op = "take" => value = Default(ty)

C11_Witness ==
    \E t \in Single :
        /\ cpc[t] = "idle" /\ ops[t] = MaxOps
        /\ ret[t].op = "take" /\ ret[t].val # Default(ty)
        /\ ~atomic_is_lock_free(ty)

\* ---- a payload with a counted destructor -------------------------------------------
\* The payload the callers construct, Foo::new(1); take constructs Foo::new(0).
Fresh1(T) == {FromNum(1 % (MaxNum(T) + 1), T.size)}

NextDrops ==
    \/ \E t \in Threads, v \in Fresh1(ty) : CellSet(t, v)
    \/ \E t \in Threads, v \in Fresh1(ty) : CellReplace(t, v)
    \/ \E t \in Threads : CellTake(t)
    \/ \E t \in Threads : lock(t)
    \/ \E t \in Threads : ReadByte(t)
    \/ \E t \in Threads : WriteByte(t)
    \/ \E t \in Threads : LockGuard_drop(t)
    \/ \E t \in Threads : AfterFallback(t)
    \/ \E t \in Threads : DropOwned(t)
    \/ \E t \in Threads : CellDrop(t)
    \/ \E t \in Threads, v \in Fresh1(ty) : CellNew(t, v)

SpecDrops == CellInit(CountedTypes, {0}) /\ [][NextDrops]_vars

RECURSIVE Total(_, _)
Total(f, S) ==
    IF S = {} THEN 0 ELSE LET x == CHOOSE y \in S : TRUE IN f[x] + Total(f, S \ {x})

\* C12: the live count of a counted payload never drops below the payloads
\* that exist; while no method runs it is one for the live cell plus one for
\* every payload a caller holds: 1 when the callers hold nothing, 0 when the
\* cell and every returned payload have been dropped.
C12_LiveCount ==
    /\ CNT >= (IF cell = "live" THEN 1 ELSE 0) + Total(owned, Threads)
    /\ (\A t \in Threads : cpc[t] = "idle") =>
          CNT = (IF cell = "live" THEN 1 ELSE 0) + Total(owned, Threads)

C12_Witness ==
    /\ cell = "dropped" /\ CNT = 0
    /\ \A t \in Threads : cpc[t] = "idle" /\ owned[t] = 0
    /\ \E t \in Threads : ops[t] = MaxOps /\ ret[t].op = "take"
    /\ \E t \in Threads : ret[t].op = "set"

\* ---- compare_and_set against concurrent set ------------------------------------------
Others == Threads \ Single
ModularTypes == {ModU16}

NextCellCas ==
    \/ \E t \in Single, c \in Samples(ty), n \in Fresh1(ty) : CellCompareAndSet(t, c, n)
    \/ \E t \in Single : CompareAndSwap(t)
    \/ \E t \in Others, v \in Samples(ty) : CellSet(t, v)
    \/ \E t \in Threads : lock(t)
    \/ \E t \in Threads : ReadByte(t)
    \/ \E t \in Threads : WriteByte(t)
    \/ \E t \in Threads : LockGuard_drop(t)
    \/ \E t \in Threads : AfterFallback(t)

SpecCellCas == CellInit(ModularTypes, {0}) /\ [][NextCellCas]_vars

\* C13: compare_and_set returns false only when the content of the cell at
\* the instant of its last compare-and-swap was not == to the `current` it was
\* called with; every retry runs with the bytes it observed, which are == to
\* that `current`; and when it returns true it has stored `new`.
C13_NoFalseOnEqual ==
    \A t \in Threads :
        /\ (ret[t].op = "compare_and_set" /\ ~ret[t].flag) =>
              ~Eq(ty, ret[t].at, ret[t].orig)
        /\ (ret[t].op = "compare_and_set" /\ ret[t].flag) =>
              /\ Eq(ty, ret[t].at, ret[t].orig)
              /\ ret[t].after = ret[t].new
        /\ (cpc[t] # "idle" /\ cloc[t].op = "compare_and_set") =>
              Eq(ty, cloc[t].current, cloc[t].orig)

\* A compare_and_set whose first attempt met bytes that differ from `current`
\* and are == to it, and that stored `new` on its second attempt.
C13_Witness ==
    \E t \in Threads :
        /\ ret[t].op = "compare_and_set" /\ ret[t].flag
        /\ ret[t].attempts = 2 /\ ret[t].at # ret[t].orig
        /\ cpc[t] = "idle" /\ value = ret[t].new

\* C14: compare_and_set writes the cell at most once; it returns true exactly
\* when it has written `new`, and when it returns false it has not written.
C14_TrueIffStored ==
    \A t \in Threads :
        /\ (cpc[t] # "idle" /\ cloc[t].op = "compare_and_set") => cloc[t].wrote <= 1
        /\ ret[t].op = "compare_and_set" =>
              /\ ret[t].flag <=> ret[t].wrote = 1
              /\ ~ret[t].flag => ret[t].wrote = 0
              /\ ret[t].flag => ret[t].after = ret[t].new

\* A compare_and_set that returned false although the caller's `current` was
\* once the content of the cell: another thread's set came in between.
C14_Witness ==
    \E t \in Threads, u \in Others :
        /\ ret[t].op = "compare_and_set" /\ ~ret[t].flag /\ ret[t].wrote = 0
        /\ ret[u].op = "set" /\ ret[u].arg = ret[t].at
        /\ ~atomic_is_lock_free(ty)

\* ---- update against concurrent set ------------------------------------------------------
NextUpdate ==
    \/ \E t \in Single, f \in Fns(ty) : CellUpdate(t, f)
    \/ \E t \in Single : CompareAndSwap(t)
    \/ \E t \in Others, v \in Samples(ty) : CellSet(t, v)
    \/ \E t \in Threads : lock(t)
    \/ \E t \in Threads : ReadByte(t)
    \/ \E t \in Threads : WriteByte(t)
    \/ \E t \in Threads : LockGuard_drop(t)
    \/ \E t \in Threads : AfterFallback(t)

SpecUpdate == CellInit(ModularTypes, {0}) /\ [][NextUpdate]_vars

\* C15 as stated: an update during which the other threads changed the cell k
\* times has called f k + 1 times.
C15_CallsPerChange ==
    \A t \in Threads : ret[t].op = "update" => ret[t].calls = ret[t].changes + 1

\* C15: update returns new = f(c) for the content c of the cell at the instant
\* of its successful compare-and-swap, and the cell holds new right after that
\* instant.  f is called once after the read and once more after every
\* compare-and-swap that fails, each time on the bytes just observed; a
\* compare-and-swap fails only if the cell was changed since those bytes were
\* observed, so f is called at most once more than the cell was changed.
C15_UpdateRetries ==
    \A t \in Threads :
        /\ ret[t].op = "update" =>
              /\ ret[t].val = Apply(ret[t].f, ret[t].at, ty)
              /\ ret[t].after = ret[t].val
              /\ ret[t].wrote = 1
              /\ ret[t].calls = ret[t].attempts
              /\ ret[t].calls <= ret[t].changes + 1
        /\ (cpc[t] = "cas" /\ cloc[t].op = "update") =>
              /\ cloc[t].new = Apply(cloc[t].f, cloc[t].current, ty)
              /\ cloc[t].calls = cloc[t].attempts + 1
              /\ cloc[t].calls <= cloc[t].changes + 1

\* An update that called f twice because a set of another thread changed the
\* cell between its read and its first compare-and-swap.
C15_Witness ==
    \E t \in Threads :
        /\ cpc[t] = "idle" /\ ret[t].op = "update"
        /\ ret[t].calls = 2 /\ ret[t].changes >= 1

\* ---- add and sub, one caller -------------------------------------------------------
NextArith ==
    \/ \E t \in Single, v \in Samples(ty) : CellAdd(t, v)
    \/ \E t \in Single, v \in Samples(ty) : CellSub(t, v)
    \/ \E t \in Single : lock(t)
    \/ \E t \in Single : ReadByte(t)
    \/ \E t \in Single : WriteByte(t)
    \/ \E t \in Single : LockGuard_drop(t)
    \/ \E t \in Single : AfterFallback(t)

SpecArith == CellInit(IntTypes, {0}) /\ [][NextArith]_vars

\* C16: add(v) on a cell holding x returns (x + v) mod 2^w and sub(v) returns
\* (x - v) mod 2^w, x, v and the result read as integers of the type (two's
\* complement for the signed ones), and the cell holds the returned value when
\* the call has returned; for every integer type, with fetch_add / fetch_sub
\* and under the stripe lock.
C16_ArithmeticWraps ==
    LET W == Base ^ ty.size
        Num(b) == IF Negative(ty, b) THEN ToNum(b) - W ELSE ToNum(b)
        Wrap(n) == FromNum((n + 2 * W) % W, ty.size)
    IN \A t \in Single :
          (cpc[t] = "idle" /\ ret[t].op \in {"add", "sub"}) =>
              /\ ret[t].op = "add" => ret[t].val = Wrap(Num(ret[t].at) + Num(ret[t].arg))
              /\ ret[t].op = "sub" => ret[t].val = Wrap(Num(ret[t].at) - Num(ret[t].arg))
              /\ value = ret[t].val
              /\ ret[t].after = ret[t].val

\* A sub of a signed type under the stripe lock that wrapped.
C16_Witness ==
    \E t \in Single :
        /\ cpc[t] = "idle"
        /\ ret[t].op = "sub" /\ ~arithmetic_is_atomic(ty) /\ ty.kind = "int"
        /\ ToNum(ret[t].at) < ToNum(ret[t].arg)

\* ---- add(1), sub(1) and get by all threads ---------------------------------------
AddTypes == {u16, i64, usize}

NextAdds ==
    \/ \E t \in Threads, v \in Fresh1(ty) : CellAdd(t, v)
    \/ \E t \in Threads, v \in Fresh1(ty) : CellSub(t, v)
    \/ \E t \in Threads : CellGet(t)
    \/ \E t \in Threads : lock(t)
    \/ \E t \in Threads : ReadByte(t)
    \/ \E t \in Threads : WriteByte(t)
    \/ \E t \in Threads : LockGuard_drop(t)
    \/ \E t \in Threads : AfterFallback(t)

SpecAdds == CellInit(AddTypes, {0}) /\ [][NextAdds]_vars

NextLinear ==
    \/ \E t \in Threads : CellGet(t)
    \/ \E t \in Threads, v \in Fresh1(ty) : CellSet(t, v)
    \/ \E t \in Threads, v \in Fresh1(ty) : CellReplace(t, v)
    \/ \E t \in Threads : CellTake(t)
    \/ \E t \in Threads, v \in Fresh1(ty) : CellUpdate(t, [kind |-> "add", c |-> v])
    \/ \E t \in Threads, n \in Fresh1(ty) : CellCompareAndSet(t, Default(ty), n)
    \/ \E t \in Threads : CompareAndSwap(t)
    \/ \E t \in Threads : lock(t)
    \/ \E t \in Threads : ReadByte(t)
    \/ \E t \in Threads : WriteByte(t)
    \/ \E t \in Threads : LockGuard_drop(t)
    \/ \E t \in Threads : AfterFallback(t)

SpecLinear == CellInit(ModularTypes, {0}) /\ [][NextLinear]_vars

\* C18: on the fallback branch every primitive behaves as one atomic
\* instruction executed on a register at the instant its stripe lock is taken:
\* the bytes it has read when it drops the guard are the ones that instruction
\* returns, the bytes in the cell when no guard is held are the register's, and
\* what a get returns is the whole content of the register at its instant.
C18_LockLinearizable ==
    /\ \A t \in Threads :
          /\ cpc[t] = "unlock" =>
                /\ cloc[t].prim \in {"load", "swap", "cas"} =>
                       cloc[t].previous = cloc[t].expect
                /\ value = reg
          /\ ret[t].op = "get" => ret[t].val = ret[t].at
          /\ ret[t].op \in {"replace", "take"} =>
                ret[t].val = ret[t].at /\ ret[t].after = ret[t].arg
    /\ LOCKS = {} => value = reg

\* The first call of a thread, a get under the stripe lock, returned the bytes
\* another thread had stored under the lock.
C18_Witness ==
    /\ ~atomic_is_lock_free(ty)
    /\ \E t, u \in Threads :
          /\ t # u
          /\ ret[t].op = "get" /\ cpc[t] = "idle"
          /\ ret[u].op \in {"set", "replace"}
          /\ ret[t].val = ret[u].arg
          /\ ops[t] = 1

\* ---- every payload type, one caller ------------------------------------------------
\* [u8; 1000] is left to the dispatch alone: its values are not enumerated.
CalledTypes == Types \ {Bytes1000}

NextLockFree ==
    \/ \E t \in Single : CellGet(t)
    \/ \E t \in Single, v \in Fresh1(ty) : CellSet(t, v)
    \/ \E t \in Single : CellTake(t)
    \/ \E t \in Single, v \in Fresh1(ty) : CellUpdate(t, [kind |-> "add", c |-> v])
    \/ \E t \in Single : CompareAndSwap(t)
    \/ \E t \in Single, v \in Fresh1(ty) : CellAdd(t, v)
    \/ \E t \in Single : lock(t)
    \/ \E t \in Single : ReadByte(t)
    \/ \E t \in Single : WriteByte(t)
    \/ \E t \in Single : LockGuard_drop(t)
    \/ \E t \in Single : AfterFallback(t)

SpecLockFree == CellInit(CalledTypes, {0}) /\ [][NextLockFree]_vars

\* C19: is_lock_free() of T is true exactly when a primitive atomic type of
\* the dispatch list has the size of T and an alignment not larger than T's;
\* it is true for usize, isize, the zero-sized types and the structs that wrap
\* them, false for [u8; 1000].  A call on a cell whose type is lock-free never
\* goes for a stripe lock, a call on any other cell always does.
C19_IsLockFree ==
    /\ [](/\ \A T \in Types :
                atomic_is_lock_free(T) <=>
                    \E i \in DOMAIN Checks :
                        Checks[i].size = T.size /\ Checks[i].align <= T.align
          /\ \A T \in {usize, isize, Unit, FooUnit, UsizeWrap, ModUsize, FooUsize} :
                atomic_is_lock_free(T)
          /\ ~atomic_is_lock_free(Bytes1000)
          /\ atomic_is_lock_free(ty) =>
                /\ LOCKS = {}
                /\ \A t \in Threads : cpc[t] \in {"idle", "cas"} /\ guard[t] = NoGuard)
    /\ [][\A t \in Threads :
             /\ (ops'[t] # ops[t]) => (atomic_is_lock_free(ty) <=> cpc'[t] # "lock")
             /\ (cpc[t] = "cas" /\ cpc'[t] # "cas") =>
                   (atomic_is_lock_free(ty) <=> cpc'[t] # "lock")]_vars

\* A cell of (u32, u32), as large as a usize but less aligned, holds a stripe
\* lock although the nightly atomics are in the dispatch list.
C19_Witness ==
    \E t \in Single :
        /\ ty = Pair32 /\ nightly
        /\ cpc[t] = "unlock" /\ guard[t] # NoGuard

\* ---- the stripe locks, cells at several addresses ---------------------------------
StripeTypes == {u16}
\* Addresses of the first stripe, of the last one, and one beyond the table.
StripeAddrs == {0, LEN - 1, LEN + 1}

NextStripes ==
    \/ \E t \in Threads : CellGet(t)
    \/ \E t \in Threads, v \in Fresh1(ty) : CellSet(t, v)
    \/ \E t \in Threads, v \in Fresh1(ty) : CellAdd(t, v)
    \/ \E t \in Threads, v \in Fresh1(ty) : CellUpdate(t, [kind |-> "add", c |-> v])
    \/ \E t \in Threads : CompareAndSwap(t)
    \/ \E t \in Threads : lock(t)
    \/ \E t \in Threads : ReadByte(t)
    \/ \E t \in Threads : WriteByte(t)
    \/ \E t \in Threads : LockGuard_drop(t)
    \/ \E t \in Threads : AfterFallback(t)

SpecStripes == CellInit(StripeTypes, StripeAddrs) /\ [][NextStripes]_vars

\* C20: no two threads hold a guard of the same stripe lock, and the locks
\* taken are exactly the ones guarded; every guard of an operation on the cell
\* is of the stripe of the cell's address, and only a thread that is reading or
\* writing the bytes or about to drop its guard holds one: a thread that has
\* returned, or is between two compare-and-swaps, holds none.
C20_StripeLocks ==
    /\ \A t, u \in Threads : (t # u /\ guard[t] # NoGuard) => guard[t] # guard[u]
    /\ LOCKS = {guard[t] : t \in Threads} \ {NoGuard}
    /\ \A t \in Threads :
          /\ guard[t] # NoGuard => guard[t] = addr % LEN /\ guard[t] \in 0..(LEN - 1)
          /\ guard[t] # NoGuard <=> cpc[t] \in {"read", "write", "unlock"}
          /\ cpc[t] \in {"idle", "cas"} => guard[t] = NoGuard

\* A thread spins on the lock of the last stripe while the other thread, in
\* the middle of writing the cell, holds it.
C20_Witness ==
    \E t, u \in Threads :
        /\ t # u /\ addr = LEN - 1
        /\ cpc[t] = "lock" /\ cpc[u] = "write" /\ cloc[u].k = 1
        /\ guard[u] = LEN - 1 /\ guard[t] = NoGuard

\* ---- methods that run user-provided code, which may panic ---------------------------
UserTypes == {ModU16, FooU8}

NextUser ==
    \/ \E t \in Threads, v \in Fresh1(ty) : CellUpdate(t, [kind |-> "add", c |-> v])
    \/ \E t \in Threads, n \in Fresh1(ty) : CellCompareAndSet(t, Default(ty), n)
    \/ \E t \in Threads : CompareAndSwap(t)
    \/ \E t \in Threads, v \in Fresh1(ty) : CellSet(t, v)
    \/ \E t \in Threads : CellTake(t)
    \/ \E t \in Threads : lock(t)
    \/ \E t \in Threads : ReadByte(t)
    \/ \E t \in Threads : WriteByte(t)
    \/ \E t \in Threads : LockGuard_drop(t)
    \/ \E t \in Threads : AfterFallback(t)
    \/ \E t \in Threads : Panic(t)

SpecUser == CellInit(UserTypes, {0}) /\ [][NextUser]_vars

\* C21: a thread holds a stripe lock only while it reads or writes the bytes
\* of the cell or is about to drop its guard; where a method calls f, the
\* payload's != or a destructor, or evaluates T::default() before it calls
\* replace, the thread holds none.  A step of a thread that holds a lock runs
\* none of that code and returns from no method, and after a panic of that
\* code the thread holds no lock: when no thread is inside a method every
\* stripe lock is free.
C21_NoLockInUserCode ==
    /\ [](/\ \A t \in Threads :
                /\ cpc[t] \in {"idle", "cas", "ret"} => guard[t] = NoGuard
                /\ guard[t] # NoGuard => guard[t] \in LOCKS
          /\ LOCKS \subseteq {guard[t] : t \in Threads}
          /\ (\A t \in Threads : cpc[t] = "idle") => LOCKS = {})
    /\ [][\A t \in Threads :
             (guard[t] # NoGuard /\ (cpc'[t] # cpc[t] \/ cloc'[t] # cloc[t])) =>
                 /\ cloc'[t].calls = cloc[t].calls
                 /\ cloc'[t].current = cloc[t].current
                 /\ CNT' = CNT
                 /\ ret'[t] = ret[t]
                 /\ cpc'[t] \in {"read", "write", "unlock", "ret"}]_vars

\* The closure of an update that went through the stripe lock has panicked,
\* and another thread holds that stripe lock afterwards.
C21_Witness ==
    \E t, u \in Threads :
        /\ t # u /\ ret[t].op = "panic" /\ cpc[t] = "idle"
        /\ ty = ModU16
        /\ guard[u] = Stripe(addr)

\* ==== HazardCell (src/src/hazard_cell.rs) ===========================================
\* The earlier variant of the AtomicArc, for any Pointer payload (a Box in the
\* tests).  Its registry has the layout of the AtomicArc's, and its state is
\* kept in the same variables: inner is HazardCell.inner, held are the
\* HazardGuards, strong[p] is 1 while the box p is allocated.  A payload is
\* never null.

\* One of the MaxReplace calls `cell.replace(new_data)` of work(): into_raw,
\* self.inner.swap(new_raw, SeqCst), HazardGuard { inner: old_raw, slot: 0 }.
HazardCell_replace(t) == ReplaceCounted(t)

\* Variant of HazardGuard_drop: the guard is forgotten.
HazardGuard_forget(t, i) ==
    /\ ~crashed /\ UNCHANGED <<cellVars, sideVars>>
    /\ pc[t] = "idle"
    /\ i \in DOMAIN held[t]
    /\ held' = [held EXCEPT ![t] = RemoveAt(@, i)]
    /\ UNCHANGED <<inner, arc, strong, alloc, hazards, in_use, next, entry, hand,
                   pc, loc, evicted, released, cas_result, count, crashed>>

\* impl Drop for HazardGuard: with a null slot drop(T::from_raw(self.inner)) at
\* once, else slot.swap(0) first.
HazardGuard_drop(t, i) ==
    /\ ~crashed /\ UNCHANGED <<cellVars, sideVars>>
    /\ pc[t] = "idle"
    /\ i \in DOMAIN held[t]
    /\ held' = [held EXCEPT ![t] = RemoveAt(@, i)]
    /\ LET a == held[t][i]
           l == [NoLoc EXCEPT !.op = "drop", !.g = a.inner, !.slot = a.slot]
       IN IF a.slot = NullSlot
            THEN Goto(t, "release", l)
            ELSE Goto(t, "hc_swap", l)
    /\ UNCHANGED <<inner, arc, strong, alloc, hazards, in_use, next, entry, hand,
                   evicted, released, cas_result, count, crashed>>

\* ---- test_replace: every thread replaces, nobody reads ------------------------------
NextHcReplace ==
    \/ \E t \in Threads : HazardCell_replace(t)
    \/ \E t \in Threads, i \in 1..MaxHeld : HazardGuard_drop(t, i)
    \/ \E t \in Threads : Release(t)

SpecHcReplace == InitFull /\ [][NextHcReplace]_vars

\* C22: every box that replace swapped out of the HazardCell is freed at most
\* once and not before it was swapped out, and when every thread has made its
\* MaxReplace calls and dropped every guard, the destructor has run
\* NumThreads * MaxReplace times, once for each box swapped out; the box in the
\* cell is allocated.
C22_HcReplaceDrops ==
    /\ \A p \in Ptrs : released[p] <= evicted[p] /\ evicted[p] <= 1
    /\ ~crashed
    /\ Joined =>
          /\ \A p \in Ptrs : released[p] = evicted[p] /\ (Freed(p) <=> evicted[p] = 1)
          /\ Cardinality({p \in Ptrs : released[p] = 1}) = NumThreads * MaxReplace
          /\ inner # 0 /\ ~Freed(inner)

C22_Witness ==
    /\ Joined
    /\ Cardinality({p \in Ptrs : released[p] = 1}) = NumThreads * MaxReplace
    /\ \E t \in Threads : pc[t] = "idle" /\ released[1] = 1

\* ==== the hazard slots of the AtomicArc =============================================

\* C23: no two SharedArcs that a thread holds at the same time, both returned
\* by get, refer to the same hazard slot: allocate_hazard_slot does not return
\* the slot of a SharedArc that is still held.
C23_SlotNotReused ==
    \A t \in Threads : \A i, j \in DOMAIN held[t] :
        (i # j /\ FromGet(held[t][i]) /\ FromGet(held[t][j]))
            => held[t][i].slot # held[t][j].slot

\* C24: try_transfer_drop_responsibility(ptr) does not return false while a
\* hazard slot of an in-use entry, or of an extension entry chained to it,
\* holds ptr for a SharedArc that some thread got before ptr left the cell and
\* still holds (such a slot holds ptr during the whole call).
C24_ScanSeesEverySlot ==
    \A t \in Threads :
        (pc[t] = "release" /\ loc[t].g # 0) =>
            ~\E u \in Threads : \E i \in DOMAIN held[u] :
                /\ FromGet(held[u][i]) /\ held[u][i].inner = loc[t].g
                /\ in_use[held[u][i].slot[1]]
                /\ HazardOf(held[u][i]) = loc[t].g

\* A SharedArc (p, s) exists in thread u: returned and held, or the guard of a
\* get in progress, or being dropped and not yet past its swap.
Bound(u, p, s) ==
    \/ \E i \in DOMAIN held[u] : held[u][i].inner = p /\ held[u][i].slot = s
    \/ pc[u] \in {"reload", "swap", "hc_swap"} /\ loc[u].slot = s /\ loc[u].g = p

\* try_transfer_drop_responsibility(p) returns true in this step of thread t.
ReturnsTrue(t) == pc[t] = "scan" /\ loc[t].g # 0 /\ loc'[t].g = 0

\* ---- the writers put a pointer back into the cell --------------------------
\* The reader calls get and drops what it got; the writers call replace with a
\* fresh handle or with the handle that clone_inner made of a SharedArc.
NextPutBack ==
    \/ \E t \in Readers : GetCall(t)
    \/ \E t \in Readers : register(t)
    \/ \E t \in Readers : allocate_hazard_slot(t)
    \/ \E t \in Readers : GetLoad(t)
    \/ \E t \in Readers : GetPublish(t)
    \/ \E t \in Readers : GetReload(t)
    \/ \E t \in Writers, v \in {"fresh", "hand"} : ReplaceHandle(t, v)
    \/ \E t \in Writers, i \in 1..MaxHeld : clone_inner(t, i)
    \/ \E t \in Threads, i \in 1..MaxHeld : DropShared(t, i)
    \/ \E t \in Threads : SwapSlot(t)
    \/ \E t \in Threads : ScanEntry(t)
    \/ \E t \in Threads : ScanSlot(t)
    \/ \E t \in Threads : Release(t)

SpecPutBack == InitFull /\ [][NextPutBack]_vars

Twin(u, i) ==
    LET a == held[u][i] IN
      \/ \E j \in DOMAIN held[u] : j # i /\ held[u][j].inner = a.inner /\ held[u][j].slot = a.slot
      \/ pc[u] \in {"reload", "swap"} /\ loc[u].slot = a.slot /\ loc[u].g = a.inner

C26_HazardsLive ==
    \A e \in Entries, k \in Slots : hazards[e][k] # 0 => ~Freed(hazards[e][k])

\* Thread t takes the step.
Acts(t) == pc'[t] # pc[t] \/ loc'[t] # loc[t]

\* C27: a hazard slot gets a non-zero value only from the thread that owns its
\* entry, publishing in get into a slot that holds 0; the owner also writes 0
\* with the swap of SharedArc::drop; any other change of a slot is made by a
\* scanning thread, from the pointer it is transferring to 0, so a slot that
\* holds a different pointer is not overwritten by another thread.
C27_SlotWriters ==
    [][\A e \in Entries, k \in Slots :
          hazards'[e][k] # hazards[e][k] =>
              \E t \in Threads :
                  /\ Acts(t)
                  /\ \/ /\ entry[t] = e /\ pc[t] = "publish" /\ loc[t].slot = <<e, k>>
                        /\ hazards[e][k] = 0 /\ hazards'[e][k] = loc[t].inner
                     \/ /\ entry[t] = e /\ pc[t] = "swap" /\ loc[t].slot = <<e, k>>
                        /\ hazards'[e][k] = 0
                     \/ /\ pc[t] = "scan" /\ loc[t].e = e /\ loc[t].k = k
                        /\ hazards[e][k] = loc[t].g /\ hazards'[e][k] = 0]_vars

\* A writer that never registered passed the count it swapped out on to the
\* reader: the slot of the reader's SharedArc went from its pointer to 0.
C27_Witness ==
    \E u \in Readers : \E i \in DOMAIN held[u] :
        LET a == held[u][i] IN
          /\ a.owes /\ HazardOf(a) = 0
          /\ evicted[a.inner] = 1 /\ released[a.inner] = 0
          /\ \A w \in Writers : entry[w] = 0 /\ pc[w] = "idle" /\ held[w] = <<>>
          /\ ~crashed

\* ==== HazardCell: get, the drop of the cell and the scan that stores 0 ======

\* let inner = self.inner.load(SeqCst), at the head of the loop of get
HcLoad(t) ==
    /\ ~crashed /\ UNCHANGED <<cellVars, sideVars>>
    /\ pc[t] = "load"
    /\ Goto(t, "publish", [loc[t] EXCEPT !.inner = inner])
    /\ UNCHANGED <<inner, arc, strong, alloc, hazards, in_use, next, entry, held,
                   hand, evicted, released, cas_result, count, crashed>>

\* slot.store(inner, SeqCst)
HcPublish(t) ==
    /\ ~crashed /\ UNCHANGED <<cellVars, sideVars>>
    /\ pc[t] = "publish"
    /\ LET s == loc[t].slot IN
         hazards' = [hazards EXCEPT ![s[1]][s[2]] = loc[t].inner]
    /\ Goto(t, "reload", [loc[t] EXCEPT !.g = loc[t].inner, !.iter = @ + 1])
    /\ UNCHANGED <<inner, arc, strong, alloc, in_use, next, entry, held, hand,
                   evicted, released, cas_result, count, crashed>>

\* if self.inner.load(SeqCst) == inner { return HazardGuard { inner, slot } };
\* otherwise the loop starts over: no guard is dropped, the slot is overwritten
\* by the next store.
HcReload(t) ==
    /\ ~crashed /\ UNCHANGED <<cellVars, sideVars>>
    /\ pc[t] = "reload"
    /\ IF inner = loc[t].inner
         THEN /\ held' = [held EXCEPT ![t] = Append(@, SharedArc_new(loc[t].inner, loc[t].slot))]
              /\ Goto(t, "idle", NoLoc)
         ELSE /\ Goto(t, "load", [loc[t] EXCEPT !.g = 0])
              /\ UNCHANGED held
    /\ UNCHANGED <<inner, arc, strong, alloc, hazards, in_use, next, entry, hand,
                   evicted, released, cas_result, count, crashed>>

\* impl Drop for HazardGuard: if slot.swap(0, SeqCst) != self.inner { try_transfer .. }
HcSwapSlot(t) ==
    /\ ~crashed /\ UNCHANGED <<cellVars, sideVars>>
    /\ pc[t] = "hc_swap"
    /\ LET s == loc[t].slot IN
         /\ hazards' = [hazards EXCEPT ![s[1]][s[2]] = 0]
         /\ IF hazards[s[1]][s[2]] # loc[t].g
              THEN Goto(t, "hc_scan", [loc[t] EXCEPT !.e = 1, !.k = 0])
              ELSE Continue(t, loc[t])
    /\ UNCHANGED <<inner, arc, strong, alloc, in_use, next, entry, held, hand,
                   evicted, released, cas_result, count, crashed>>

\* The scan of the HazardCell registry moves on to the next entry.
HcNextEntry(t, l) ==
    IF l.e < NumThreads
      THEN Goto(t, "hc_scan", [l EXCEPT !.e = l.e + 1, !.k = 0])
      ELSE NotTransferred(t, l)

\* Registry::try_transfer_drop_responsibility: entry.in_use.load(SeqCst)
HcScanEntry(t) ==
    /\ ~crashed /\ UNCHANGED <<cellVars, sideVars>>
    /\ pc[t] = "hc_scan" /\ loc[t].k = 0
    /\ IF in_use[loc[t].e]
         THEN Goto(t, "hc_scan", [loc[t] EXCEPT !.k = 1])
         ELSE HcNextEntry(t, loc[t])
    /\ UNCHANGED <<inner, arc, strong, alloc, hazards, in_use, next, entry, held,
                   hand, evicted, released, cas_result, count, crashed>>

\* ThreadEntry::try_transfer_drop_responsibility: if hazard.load(SeqCst) == ptr
HcScanLoad(t) ==
    /\ ~crashed /\ UNCHANGED <<cellVars, sideVars>>
    /\ pc[t] = "hc_scan" /\ loc[t].k > 0
    /\ LET e == loc[t].e
           k == loc[t].k
       IN IF hazards[e][k] = loc[t].g
            THEN Goto(t, "hc_clear", loc[t])
            ELSE IF k < NumHazards
                   THEN Goto(t, "hc_scan", [loc[t] EXCEPT !.k = k + 1])
                   ELSE HcNextEntry(t, loc[t])
    /\ UNCHANGED <<inner, arc, strong, alloc, hazards, in_use, next, entry, held,
                   hand, evicted, released, cas_result, count, crashed>>

\* Variant of HcScanStore: compare_and_swap(ptr, 0) as in atomic_arc.rs; when it
\* fails the scan goes on.
HcScanCas(t) ==
    /\ ~crashed /\ UNCHANGED <<cellVars, sideVars>>
    /\ pc[t] = "hc_clear"
    /\ LET e == loc[t].e
           k == loc[t].k
       IN IF hazards[e][k] = loc[t].g
            THEN /\ hazards' = [hazards EXCEPT ![e][k] = 0]
                 /\ Continue(t, loc[t])
            ELSE /\ UNCHANGED hazards
                 /\ IF k < NumHazards
                      THEN Goto(t, "hc_scan", [loc[t] EXCEPT !.k = k + 1])
                      ELSE HcNextEntry(t, loc[t])
    /\ UNCHANGED <<inner, arc, strong, alloc, in_use, next, entry, held, hand,
                   evicted, released, cas_result, count, crashed>>

\* hazard.store(0, SeqCst); return true
HcScanStore(t) ==
    /\ ~crashed /\ UNCHANGED <<cellVars, sideVars>>
    /\ pc[t] = "hc_clear"
    /\ hazards' = [hazards EXCEPT ![loc[t].e][loc[t].k] = 0]
    /\ Continue(t, loc[t])
    /\ UNCHANGED <<inner, arc, strong, alloc, in_use, next, entry, held, hand,
                   evicted, released, cas_result, count, crashed>>

\* impl Drop for HazardCell: try_transfer_drop_responsibility(self.inner.load()),
\* and drop(T::from_raw(self.inner.load())) when it returns false.
HazardCell_drop(t) ==
    /\ ~crashed /\ UNCHANGED <<cellVars, sideVars>>
    /\ pc[t] = "idle" /\ arc = "live"
    /\ \A u \in Threads : ~Borrows(u)
    /\ arc' = "dropped"
    /\ inner' = 0
    /\ evicted' = Evict(inner)
    /\ Goto(t, "hc_scan", [NoLoc EXCEPT !.op = "arcdrop", !.g = inner, !.e = 1, !.chk = TRUE])
    /\ UNCHANGED <<strong, alloc, hazards, in_use, next, entry, held, hand,
                   released, cas_result, count, crashed>>

\* HazardCell::new(Box::new(..)), once the previous HazardCell is being dropped
\* or gone.
HazardCell_new(t) == new(t, "fresh")

\* ---- one thread reads, the other drops the cell ------------------------------
\* The reader calls get, drops its guards and makes the next HazardCell; the
\* writer drops the HazardCell.
NextHc ==
    \/ \E t \in Readers : GetCall(t)
    \/ \E t \in Readers : register(t)
    \/ \E t \in Readers : allocate_hazard_slot(t)
    \/ \E t \in Readers : HcLoad(t)
    \/ \E t \in Readers : HcPublish(t)
    \/ \E t \in Readers : HcReload(t)
    \/ \E t \in Readers : HazardCell_new(t)
    \/ \E t \in Writers : HazardCell_drop(t)
    \/ \E t \in Threads, i \in 1..MaxHeld : HazardGuard_drop(t, i)
    \/ \E t \in Threads : HcSwapSlot(t)
    \/ \E t \in Threads : HcScanEntry(t)
    \/ \E t \in Threads : HcScanLoad(t)
    \/ \E t \in Threads : HcScanStore(t)
    \/ \E t \in Threads : Release(t)

SpecHc == InitFull /\ [][NextHc]_vars

\* C28: the store of 0 that follows the load which saw ptr is unconditional:
\* the call returns true whatever the slot holds by then; when the slot holds
\* a different pointer q, the owner of the slot has released it and published
\* q since the load, for a guard it has or in the loop of a get it is in, and
\* the store erases that hazard.
C28_StoreRaces ==
    [][\A t \in Threads :
          (pc[t] = "hc_clear" /\ Acts(t)) =>
              LET e == loc[t].e
                  k == loc[t].k
                  q == hazards[e][k]
              IN /\ hazards' = [hazards EXCEPT ![e][k] = 0]
                 /\ pc'[t] = loc[t].cont
                 /\ UNCHANGED <<strong, released>>
                 /\ (q # 0 /\ q # loc[t].g) =>
                       \E u \in Threads \ {t} :
                           /\ entry[u] = e
                           /\ \/ Bound(u, q, <<e, k>>)
                              \/ pc[u] \in {"load", "publish"} /\ loc[u].slot = <<e, k>>]_vars

\* The store erased the hazard of a guard for the box q of the cell while the
\* destructor of the previous cell was passing on its box p: the reader holds
\* one guard, for q, which never left the cell, and its slot holds 0; the
\* writer's call returned true, and nobody is left to free p.
C28_Witness ==
    \E u \in Readers :
        /\ Len(held[u]) = 1 /\ pc[u] = "idle"
        /\ FromGet(held[u][1]) /\ held[u][1].inner = inner /\ inner # 0 /\ arc = "live"
        /\ evicted[inner] = 0
        /\ HazardOf(held[u][1]) = 0
        /\ \A w \in Writers : pc[w] = "idle" /\ held[w] = <<>>
        /\ \E p \in Ptrs : evicted[p] = 1 /\ released[p] = 0 /\ ~Freed(p)
        /\ ~crashed

\* ==== the thread registry: register, thread exit ============================

\* Registry::register: if !entry.in_use.load(SeqCst), else the next entry.
RegisterLoad(t) ==
    /\ ~crashed /\ UNCHANGED <<cellVars, sideVars>>
    /\ pc[t] = "register" /\ loc[t].e \in Entries
    /\ IF ~in_use[loc[t].e]
         THEN Goto(t, "reg_swap", loc[t])
         ELSE Goto(t, "register", [loc[t] EXCEPT !.e = @ + 1])
    /\ UNCHANGED <<inner, arc, strong, alloc, hazards, in_use, next, entry, held,
                   hand, evicted, released, cas_result, count, crashed>>

\* Variant of RegisterSwap: in_use.store(true), the entry is taken whatever the
\* flag was.
RegisterStore(t) ==
    /\ ~crashed /\ UNCHANGED <<cellVars, sideVars>>
    /\ pc[t] = "reg_swap"
    /\ in_use' = [in_use EXCEPT ![loc[t].e] = TRUE]
    /\ entry' = [entry EXCEPT ![t] = loc[t].e]
    /\ Goto(t, "alloc", [loc[t] EXCEPT !.e = 0, !.k = 1])
    /\ UNCHANGED <<inner, arc, strong, alloc, hazards, next, held, hand, evicted,
                   released, cas_result, count, crashed>>

\* if entry.in_use.swap(true, SeqCst) == false { return entry }, else the next
\* entry; Harness::new keeps the entry in the thread-local HARNESS.
RegisterSwap(t) ==
    /\ ~crashed /\ UNCHANGED <<cellVars, sideVars>>
    /\ pc[t] = "reg_swap"
    /\ in_use' = [in_use EXCEPT ![loc[t].e] = TRUE]
    /\ IF ~in_use[loc[t].e]
         THEN /\ entry' = [entry EXCEPT ![t] = loc[t].e]
              /\ Goto(t, "alloc", [loc[t] EXCEPT !.e = 0, !.k = 1])
         ELSE /\ Goto(t, "register", [loc[t] EXCEPT !.e = @ + 1])
              /\ UNCHANGED entry
    /\ UNCHANGED <<inner, arc, strong, alloc, hazards, next, held, hand, evicted,
                   released, cas_result, count, crashed>>

\* The non-zero slots of an entry and of the extension entries behind it.
Taken(e) == {k \in Slots : hazards[e][k] # 0}

\* A get of a thread that holds no SharedArc.
GetOne(t) == held[t] = <<>> /\ GetCall(t)

\* std::mem::forget(shared): the SharedArc is gone and its destructor does not
\* run, so its slot keeps its value.  At most one slot per entry is left this way.
forget(t, i) ==
    /\ ~crashed /\ UNCHANGED <<cellVars, sideVars>>
    /\ pc[t] = "idle"
    /\ i \in DOMAIN held[t]
    /\ Cardinality(Taken(entry[t])) <= 1
    /\ held' = [held EXCEPT ![t] = RemoveAt(@, i)]
    /\ UNCHANGED <<inner, arc, strong, alloc, hazards, in_use, next, entry, hand,
                   pc, loc, evicted, released, cas_result, count, crashed>>

\* The thread exits: impl Drop for Harness calls ThreadEntry::unregister,
\* in_use.store(false, SeqCst).  The values on the thread's stack have been
\* dropped before.  The thread that starts next has no HARNESS yet.
unregister(t) ==
    /\ ~crashed /\ UNCHANGED <<cellVars, sideVars>>
    /\ pc[t] = "idle"
    /\ entry[t] # 0
    /\ held[t] = <<>>
    /\ in_use' = [in_use EXCEPT ![entry[t]] = FALSE]
    /\ entry' = [entry EXCEPT ![t] = 0]
    /\ UNCHANGED <<inner, arc, strong, alloc, hazards, next, held, hand, pc, loc,
                   evicted, released, cas_result, count, crashed>>

\* ---- threads start, read the cell and exit -------------------------------------
NextThreads ==
    \/ \E t \in Threads : GetOne(t)
    \/ \E t \in Threads : RegisterLoad(t)
    \/ \E t \in Threads : RegisterSwap(t)
    \/ \E t \in Threads : allocate_hazard_slot(t)
    \/ \E t \in Threads : GetLoad(t)
    \/ \E t \in Threads : GetPublish(t)
    \/ \E t \in Threads : GetReload(t)
    \/ \E t \in Threads, i \in 1..MaxHeld : DropShared(t, i)
    \/ \E t \in Threads : SwapSlot(t)
    \/ \E t \in Threads, i \in 1..MaxHeld : forget(t, i)
    \/ \E t \in Threads : unregister(t)

SpecThreads == Init /\ [][NextThreads]_vars

\* C29: no two threads whose harnesses exist hold the same ThreadEntry, the
\* entry of a harness is marked in use, and a thread gets an entry only in the
\* step in which its swap on in_use finds false and writes true.
C29_OneOwner ==
    /\ [](\A t \in Threads : entry[t] # 0 =>
             /\ in_use[entry[t]]
             /\ \A u \in Threads \ {t} : entry[u] # entry[t])
    /\ [][\A t \in Threads :
             (entry'[t] # entry[t] /\ entry'[t] # 0) =>
                 /\ pc[t] = "reg_swap" /\ loc[t].e = entry'[t]
                 /\ ~in_use[entry'[t]] /\ in_use'[entry'[t]]]_vars

\* A thread lost the race for an entry: it loaded false, and its swap finds
\* true because the other thread, whose harness exists, took the entry since.
C29_Witness ==
    \E t \in Threads : \E u \in Threads \ {t} :
        /\ pc[t] = "reg_swap" /\ in_use[loc[t].e]
        /\ entry[u] = loc[t].e /\ held[u] # <<>>

\* C30: a ThreadEntry whose in_use flag is false has all its hazard slots, and
\* those of its extension entries, equal to 0; so they are 0 when the
\* destruction of the harness stores false.
C30_FreeEntryClean ==
    \A e \in Entries : ~in_use[e] => Taken(e) = {}

\* ==== the registry links: registry(), try_extend_registry =====================

SideFrame ==
    /\ UNCHANGED <<inner, arc, strong, alloc, hazards, in_use, next, entry, held, hand,
                   evicted, released, cas_result, count, crashed>>
    /\ UNCHANGED stackVars

\* registry(): let mut reg_ptr = REGISTRY.load(SeqCst); if reg_ptr.is_null() ..
registry(t) ==
    /\ ~crashed /\ UNCHANGED cellVars
    /\ pc[t] = "idle"
    /\ IF links[1] = 0
         THEN /\ Goto(t, "seg_new", [NoLoc EXCEPT !.op = "registry", !.k = 1])
              /\ UNCHANGED seen
         ELSE /\ seen' = [seen EXCEPT ![t][1] = links[1]]
              /\ UNCHANGED <<pc, loc>>
    /\ UNCHANGED <<links, segments>>
    /\ SideFrame

\* Registry::register on the first segment when every entry of it is in use:
\* let mut next = self.next.load(SeqCst); if next.is_null() ..
register_next(t) ==
    /\ ~crashed /\ UNCHANGED cellVars
    /\ pc[t] = "idle" /\ seen[t][1] # 0
    /\ IF links[2] = 0
         THEN /\ Goto(t, "seg_new", [NoLoc EXCEPT !.op = "register", !.k = 2])
              /\ UNCHANGED seen
         ELSE /\ seen' = [seen EXCEPT ![t][2] = links[2]]
              /\ UNCHANGED <<pc, loc>>
    /\ UNCHANGED <<links, segments>>
    /\ SideFrame

\* try_extend_registry: let instance = Box::into_raw(Box::new(Registry::default()))
SegNew(t) ==
    /\ ~crashed /\ UNCHANGED cellVars
    /\ pc[t] = "seg_new"
    /\ LET i == Draft(t, loc[t].k) IN
         /\ segments' = [segments EXCEPT ![i] = "draft"]
         /\ Goto(t, "seg_cas", [loc[t] EXCEPT !.new = i])
    /\ UNCHANGED <<links, seen>>
    /\ SideFrame

\* Variant of SegPublish: ptr.store(instance), whatever the link holds.
SegStore(t) ==
    /\ ~crashed /\ UNCHANGED cellVars
    /\ pc[t] = "seg_cas"
    /\ links' = [links EXCEPT ![loc[t].k] = loc[t].new]
    /\ segments' = [segments EXCEPT ![loc[t].new] = "live"]
    /\ Goto(t, "seg_reload", loc[t])
    /\ UNCHANGED seen
    /\ SideFrame

\* if !ptr.compare_exchange(null, instance, SeqCst, SeqCst).is_ok() { drop(..) }
SegPublish(t) ==
    /\ ~crashed /\ UNCHANGED cellVars
    /\ pc[t] = "seg_cas"
    /\ IF links[loc[t].k] = 0
         THEN /\ links' = [links EXCEPT ![loc[t].k] = loc[t].new]
              /\ segments' = [segments EXCEPT ![loc[t].new] = "live"]
              /\ Goto(t, "seg_reload", loc[t])
         ELSE /\ UNCHANGED <<links, segments>>
              /\ Goto(t, "seg_free", loc[t])
    /\ UNCHANGED seen
    /\ SideFrame

\* unsafe { drop(Box::from_raw(instance)) }
SegFree(t) ==
    /\ ~crashed /\ UNCHANGED cellVars
    /\ pc[t] = "seg_free"
    /\ segments' = [segments EXCEPT ![loc[t].new] = "freed"]
    /\ Goto(t, "seg_reload", loc[t])
    /\ UNCHANGED <<links, seen>>
    /\ SideFrame

\* reg_ptr = REGISTRY.load(SeqCst) / next = self.next.load(SeqCst), and the
\* caller goes on with &(*reg_ptr) / (*next).register().
SegReload(t) ==
    /\ ~crashed /\ UNCHANGED cellVars
    /\ pc[t] = "seg_reload"
    /\ seen' = [seen EXCEPT ![t][loc[t].k] = links[loc[t].k]]
    /\ Goto(t, "idle", NoLoc)
    /\ UNCHANGED <<links, segments>>
    /\ SideFrame

NextSegments ==
    \/ \E t \in Threads : registry(t)
    \/ \E t \in Threads : register_next(t)
    \/ \E t \in Threads : SegNew(t)
    \/ \E t \in Threads : SegPublish(t)
    \/ \E t \in Threads : SegFree(t)
    \/ \E t \in Threads : SegReload(t)

SpecSegments == Init /\ [][NextSegments]_vars

\* The segments allocated for link k.
DraftsOf(k) == {Draft(t, k) : t \in Threads}

\* C31: a link holds null or the one published segment of its drafts, which is
\* never freed; once a link is not null it does not change; a draft that lost
\* the compare-and-swap is freed by the thread that made it before that thread
\* goes on, and every thread goes on with the segment the link holds.
C31_OneSegment ==
    /\ [](\A k \in Links :
            /\ links[k] # 0 => links[k] \in DraftsOf(k) /\ segments[links[k]] = "live"
            /\ \A i \in DraftsOf(k) : segments[i] = "live" => links[k] = i
            /\ \A t \in Threads :
                  /\ seen[t][k] # 0 => seen[t][k] = links[k]
                  /\ segments[Draft(t, k)] = "draft" =>
                        pc[t] \in {"seg_cas", "seg_free"} /\ loc[t].new = Draft(t, k)
                  /\ (pc[t] = "seg_reload" /\ loc[t].k = k) => links[k] # 0)
    /\ [][\A k \in Links : links[k] # 0 => links'[k] = links[k]]_vars

\* Both threads made a draft for the static REGISTRY: one is published, the
\* other was freed by its maker, and both threads hold the published segment.
C31_Witness ==
    /\ \A t \in Threads : seen[t][1] = links[1] /\ links[1] # 0 /\ pc[t] = "idle"
    /\ \E i \in DraftsOf(1) : segments[i] = "freed"
    /\ Cardinality({i \in DraftsOf(1) : segments[i] = "live"}) = 1

\* ----------------------------------------------------------------------------
\* The loop of AtomicArc::get
\* ----------------------------------------------------------------------------

\* The step of thread t is the re-load of get and get returns with it.
GetReturns(t) == pc[t] = "reload" /\ pc'[t] = "idle"

\* C33 as stated: get returns a SharedArc whose pointer is in the cell at the
\* re-load while the thread's hazard slot holds that pointer.
C33_SlotHoldsAtReload ==
    [][\A t \in Threads : GetReturns(t) =>
          /\ inner = loc[t].inner
          /\ hazards[loc[t].slot[1]][loc[t].slot[2]] = loc[t].inner]_vars

\* C33: get returns the SharedArc (p, slot) of the guard it published, p is in
\* the cell at the re-load, and the slot holds p or was emptied by a transfer of
\* the responsibility for p to the guard; a guard whose re-load saw another word
\* is dropped by the steps of SharedArc::drop, and the loop publishes again only
\* when that drop is over.
C33_GetReturnsPublished ==
    [][\A t \in Threads :
          /\ GetReturns(t) =>
               /\ inner = loc[t].inner /\ loc[t].g = loc[t].inner
               /\ hazards[loc[t].slot[1]][loc[t].slot[2]] \in {loc[t].inner, 0}
               /\ held'[t] = Append(held[t],
                      [inner |-> loc[t].inner, slot |-> loc[t].slot, cas |-> FALSE,
                       owes |-> hazards[loc[t].slot[1]][loc[t].slot[2]] # loc[t].inner])
          /\ (pc[t] = "reload" /\ pc'[t] # pc[t] /\ ~GetReturns(t)) =>
               /\ inner # loc[t].inner
               /\ pc'[t] = "swap" /\ loc'[t].g = loc[t].g /\ loc'[t].slot = loc[t].slot
               /\ loc'[t].cont = "publish" /\ loc'[t].inner = inner
               /\ held'[t] = held[t]
          /\ (pc'[t] = "publish" /\ pc[t] # "publish") =>
               \/ pc[t] = "load"
               \/ /\ pc[t] \in {"swap", "scan", "release"} /\ loc[t].cont = "publish"
                  /\ hazards'[loc[t].slot[1]][loc[t].slot[2]] = 0]_vars

\* get has returned a SharedArc whose pointer is in the cell and whose slot a
\* transfer has emptied before the re-load.
C33_Witness ==
    \E t \in Readers :
        /\ pc[t] = "idle" /\ held[t] # <<>> /\ ~crashed
        /\ LET a == held[t][Len(held[t])] IN
             /\ a.inner # 0 /\ a.inner = inner /\ a.owes /\ a.slot # NullSlot
             /\ hazards[a.slot[1]][a.slot[2]] = 0

\* A get of thread t is in progress.
InGet(t) == pc[t] # "idle" /\ loc[t].op = "get"

\* The steps a thread takes inside get: the registration, the allocation of
\* the slot, the loop, and the drop of a guard whose re-load saw another word.
GetStep(t) ==
    \/ register(t) \/ allocate_hazard_slot(t)
    \/ GetLoad(t) \/ GetPublish(t) \/ GetReload(t)
    \/ SwapSlot(t) \/ ScanEntry(t) \/ ScanSlot(t) \/ Release(t)

\* SpecPutBack with every thread scheduled again and again while it is inside
\* a call.
SpecGetFair == SpecPutBack /\ \A t \in Threads : WF_vars(GetStep(t))

\* C34: a get in progress has published its hazard at most once more than the
\* cell's word was swapped since the call, a get returns after one iteration
\* when no swap succeeded during the call, and every get returns unless the
\* program has run into undefined behaviour.
C34_GetTerminates ==
    /\ [](\A t \in Threads : InGet(t) => loc[t].iter <= (Swaps - loc[t].base) + 1)
    /\ [][\A t \in Threads :
             (GetReturns(t) /\ Swaps = loc[t].base) => loc[t].iter = 1]_vars
    /\ \A t \in Threads : InGet(t) ~> (pc[t] = "idle" \/ crashed)

\* A get is in its third iteration after two swaps of the cell's word during the
\* call.
C34_Witness ==
    \E t \in Readers :
        /\ pc[t] = "reload" /\ loc[t].op = "get" /\ ~crashed
        /\ loc[t].iter = 3 /\ Swaps = loc[t].base + 2
        /\ inner = loc[t].inner

\* ----------------------------------------------------------------------------
\* The drop of a SharedArc
\* ----------------------------------------------------------------------------

\* Thread t is at slot.swap(0) of SharedArc::drop and its slot holds the
\* pointer of the SharedArc.
OwnPointerInSlot(t) ==
    /\ pc[t] = "swap" /\ loc[t].slot # NullSlot
    /\ hazards[loc[t].slot[1]][loc[t].slot[2]] = loc[t].g

\* C35: the drop of a SharedArc that finds its own pointer in its hazard slot
\* writes 0 to that slot and is over: no other slot, no strong count and not the
\* cell's word change, and neither a scan nor a release follows.
C35_OwnPointerOnlyClears ==
    [][\A t \in Threads : (OwnPointerInSlot(t) /\ Acts(t)) =>
          /\ hazards' = [hazards EXCEPT ![loc[t].slot[1]][loc[t].slot[2]] = 0]
          /\ pc'[t] = loc[t].cont
          /\ loc'[t].g = 0
          /\ <<inner, arc, strong, alloc, evicted, released, held, hand, in_use,
               next, entry, crashed>>' =
             <<inner, arc, strong, alloc, evicted, released, held, hand, in_use,
               next, entry, crashed>>]_vars

\* A SharedArc of a live referent is being dropped by its owner, the slot holds
\* its pointer and another thread keeps a SharedArc of its own.
C35_Witness ==
    \E t \in Readers :
        /\ OwnPointerInSlot(t) /\ loc[t].op = "drop" /\ loc[t].g # 0
        /\ strong[loc[t].g] > 0 /\ ~crashed
        /\ \E u \in Threads \ {t} : held[u] # <<>>

\* C36: the drop of an empty SharedArc (inner = 0) never reaches
\* drop(Arc::from_raw(0)): no thread is about to release the null pointer, and
\* no strong count is dropped for it.
C36_EmptyDropHarmless ==
    \A t \in Threads : pc[t] = "release" => loc[t].g # 0

\* ----------------------------------------------------------------------------
\* The loop of AtomicCell::compare_and_set
\* ----------------------------------------------------------------------------

\* The steps a thread takes inside a method of the cell.
CellStep(t) ==
    \/ CompareAndSwap(t) \/ lock(t) \/ ReadByte(t) \/ WriteByte(t)
    \/ LockGuard_drop(t) \/ AfterFallback(t)

\* SpecCellCas with every thread scheduled again and again while it is inside
\* a method.
SpecCellCasFair == SpecCellCas /\ \A t \in Threads : WF_vars(CellStep(t))

InCas(t) == cpc[t] # "idle" /\ cloc[t].op = "compare_and_set"

\* C37: compare_and_set makes at most two compare-and-swaps more than the cell
\* was changed by others since its first one, each retry but the first follows
\* such a change, the second compare-and-swap succeeds when the cell was not
\* changed, and every call returns.
C37_CasTerminates ==
    /\ [](\A t \in Threads :
            /\ (InCas(t) /\ cpc[t] = "cas") => cloc[t].attempts <= cloc[t].changes + 1
            /\ InCas(t) => cloc[t].attempts <= cloc[t].changes + 2
            /\ ret[t].op = "compare_and_set" =>
                  /\ ret[t].attempts <= ret[t].changes + 2
                  /\ (ret[t].changes = 0 /\ ret[t].attempts = 2) => ret[t].flag)
    /\ \A t \in Threads : InCas(t) ~> (cpc[t] = "idle")

\* A compare_and_set has returned true at its third compare-and-swap after one
\* change of the cell by the other thread.
C37_Witness ==
    \E t \in Single :
        /\ ret[t].op = "compare_and_set" /\ ret[t].flag
        /\ ret[t].attempts = 3 /\ ret[t].changes = 1

\* ----------------------------------------------------------------------------
\* HazardCell::into_inner and the guards of HazardCell::get
\* ----------------------------------------------------------------------------

\* HazardCell::into_inner(self): T::from_raw(self.inner.load(SeqCst)) is the
\* value returned; self is not forgotten, so impl Drop for HazardCell runs on it
\* when the function returns: try_transfer_drop_responsibility of the same
\* word, and drop(T::from_raw(..)) when that returns false.
HazardCell_into_inner(t) ==
    /\ ~crashed /\ UNCHANGED <<cellVars, sideVars>>
    /\ pc[t] = "idle" /\ arc = "live"
    /\ \A u \in Threads : ~Borrows(u)
    /\ hand[t] = 0
    /\ hand' = [hand EXCEPT ![t] = inner]
    /\ arc' = "taken"
    /\ inner' = 0
    /\ evicted' = Evict(inner)
    /\ Goto(t, "hc_scan", [NoLoc EXCEPT !.op = "arcdrop", !.g = inner, !.e = 1, !.chk = TRUE])
    /\ UNCHANGED <<strong, alloc, hazards, in_use, next, entry, held,
                   released, cas_result, count, crashed>>

\* ---- one thread reads, the other consumes the cell ----------------------------
NextHcOwner ==
    \/ \E t \in Readers : GetCall(t)
    \/ \E t \in Readers : register(t)
    \/ \E t \in Readers : allocate_hazard_slot(t)
    \/ \E t \in Readers : HcLoad(t)
    \/ \E t \in Readers : HcPublish(t)
    \/ \E t \in Readers : HcReload(t)
    \/ \E t \in Readers : HazardCell_new(t)
    \/ \E t \in Writers : HazardCell_into_inner(t)
    \/ \E t \in Writers : DropHandle(t)
    \/ \E t \in Threads, i \in 1..MaxHeld : HazardGuard_drop(t, i)
    \/ \E t \in Threads : HcSwapSlot(t)
    \/ \E t \in Threads : HcScanEntry(t)
    \/ \E t \in Threads : HcScanLoad(t)
    \/ \E t \in Threads : HcScanStore(t)
    \/ \E t \in Threads : Release(t)

SpecHcOwner == InitFull /\ [][NextHcOwner]_vars

\* C38: the pointer HazardCell::into_inner returned belongs to the caller alone:
\* while the caller has it, its referent is not freed and nobody else, neither
\* the destructor of the HazardCell nor a reader, has dropped it.
C38_HandedOnce ==
    \A t \in Threads :
        hand[t] # 0 => (~Freed(hand[t]) /\ released[hand[t]] = 0)

\* ---- one thread reads, the others replace --------------------------------------
\* No scan of the registry starts here: the guard of replace has a null slot
\* and is released at once, and the swap of a guard of get finds the guard's
\* own pointer, since nothing but a scan writes to the slot of another thread.
NextHcRW ==
    \/ \E t \in Readers : GetCall(t)
    \/ \E t \in Readers : register(t)
    \/ \E t \in Readers : allocate_hazard_slot(t)
    \/ \E t \in Readers : HcLoad(t)
    \/ \E t \in Readers : HcPublish(t)
    \/ \E t \in Readers : HcReload(t)
    \/ \E t \in Writers : HazardCell_replace(t)
    \/ \E t \in Threads, i \in 1..MaxHeld : HazardGuard_drop(t, i)
    \/ \E t \in Threads : HcSwapSlot(t)
    \/ \E t \in Threads : Release(t)

SpecHcRW == InitFull /\ [][NextHcRW]_vars

\* C39: the referent of a HazardGuard that get returned is not freed as long
\* as the guard is not dropped.
C39_GuardSeesLive ==
    \A t \in Threads : \A i \in DOMAIN held[t] :
        LET a == held[t][i] IN
          (a.slot # NullSlot /\ a.inner # 0) => strong[a.inner] > 0

\* ============================================================================
\* The Treiber stack of examples/stack.rs
\* ============================================================================
\* Stack.head and every Node.next are AtomicArcs over the same registry.  A
\* step is one atomic memory operation of the thread that executes it.  The
\* drops a thread has in progress are kept in frames[t], innermost last; while
\* it has one, the thread runs that drop and push / pop wait for it.  A thread
\* that dereferences a freed node, drops a count that is not there or releases
\* the null pointer has run into undefined behaviour and stops at "ub".

StackFrame == UNCHANGED <<arcVars, cellVars, links, segments, seen>>

\* The word of the cell a get reads: 0 stands for Stack.head, n for the `next`
\* of node n.
Word(c) == IF c = 0 THEN head ELSE nnext[c]

\* The node's allocation is gone.
Gone(n) == n # 0 /\ nfreed[n] > 0

Top(t) == frames[t][Len(frames[t])]
SetTop(t, f) == frames' = [frames EXCEPT ![t] = [@ EXCEPT ![Len(@)] = f]]
PopFrame(t) == frames' = [frames EXCEPT ![t] = SubSeq(@, 1, Len(@) - 1)]
SetTopAndCall(t, f, g) ==
    frames' = [frames EXCEPT ![t] = Append([@ EXCEPT ![Len(@)] = f], g)]
Call(t, g) == frames' = [frames EXCEPT ![t] = Append(@, g)]

\* drop of SharedArc::new(p, null), and what a SharedArc with a slot does when
\* the swap of its slot returns another value: try_transfer_drop_responsibility,
\* then drop(Arc::from_raw(p)).
Shared(p) == [kind |-> "shared", p |-> p, e |-> 1, k |-> 0, nx |-> 0, ph |-> "scan"]
\* drop of an Arc<Node<T>>
ArcDrop(p) == [Shared(p) EXCEPT !.ph = "release"]
\* impl Drop for AtomicArc on the field `next` of a node that is being freed
NextDrop(p) == [Shared(p) EXCEPT !.kind = "cell"]
\* impl Drop for Node, followed by the drop of its fields
NodeDrop(p) == [kind |-> "node", p |-> p, e |-> 0, k |-> 0, nx |-> 0, ph |-> "swap"]

\* The thread has run into undefined behaviour.
Ub(t) ==
    /\ spc' = [spc EXCEPT ![t] = "ub"]
    /\ UNCHANGED <<head, nnext, nval, ncount, nfreed, nalloc, shaz, sin_use, sentry,
                   sloc, frames, got, calls>>

\* ---- the registry --------------------------------------------------------------

\* After the last entry the segment's `next` is null: the call returns false.
\* drop(Arc::from_raw(raw)) follows, in impl Drop for AtomicArc only if raw != 0.
StNotTransferred(t, f) ==
    IF f.kind = "cell" /\ f.p = 0
      THEN PopFrame(t)
      ELSE SetTop(t, [f EXCEPT !.ph = "release"])

StNextEntry(t, f) ==
    IF f.e < NumThreads
      THEN SetTop(t, [f EXCEPT !.e = f.e + 1, !.k = 0])
      ELSE StNotTransferred(t, f)

\* Registry::try_transfer_drop_responsibility: if entry.in_use.load(SeqCst)
StScanEntry(t) ==
    /\ StackFrame
    /\ spc[t] # "ub" /\ frames[t] # <<>>
    /\ Top(t).ph = "scan" /\ Top(t).k = 0
    /\ IF sin_use[Top(t).e]
         THEN SetTop(t, [Top(t) EXCEPT !.k = 1])
         ELSE StNextEntry(t, Top(t))
    /\ UNCHANGED <<head, nnext, nval, ncount, nfreed, nalloc, shaz, sin_use, sentry,
                   spc, sloc, got, calls>>

\* ThreadEntry::try_transfer_drop_responsibility, one hazard per step: the load
\* that sees ptr and the compare_and_swap(ptr, 0) act as one compare-and-swap.
StScanSlot(t) ==
    /\ StackFrame
    /\ spc[t] # "ub" /\ frames[t] # <<>>
    /\ Top(t).ph = "scan" /\ Top(t).k > 0
    /\ LET f == Top(t) IN
         IF shaz[f.e][f.k] = f.p
           THEN /\ shaz' = [shaz EXCEPT ![f.e][f.k] = 0]
                /\ PopFrame(t)
           ELSE /\ UNCHANGED shaz
                /\ IF f.k < StackSlots
                     THEN SetTop(t, [f EXCEPT !.k = f.k + 1])
                     ELSE StNextEntry(t, f)
    /\ UNCHANGED <<head, nnext, nval, ncount, nfreed, nalloc, sin_use, sentry,
                   spc, sloc, got, calls>>

\* drop(Arc::from_raw(p)): one strong count less; the last one runs the
\* destructor of the node.
StRelease(t) ==
    /\ StackFrame
    /\ spc[t] # "ub" /\ frames[t] # <<>>
    /\ Top(t).ph = "release"
    /\ LET p == Top(t).p IN
         IF p = 0 \/ Gone(p) \/ ncount[p] = 0
           THEN Ub(t)
           ELSE /\ ncount' = [ncount EXCEPT ![p] = @ - 1]
                /\ IF ncount[p] = 1 THEN SetTop(t, NodeDrop(p)) ELSE PopFrame(t)
                /\ UNCHANGED <<head, nnext, nval, nfreed, nalloc, shaz, sin_use,
                               sentry, spc, sloc, got, calls>>

\* impl Drop for Node:
\*   let mut next = self.next.replace(None);
\*   loop { next = match next.as_ref() { None => break,
\*                                       Some(n) => n.next.replace(None) } }
\* then the fields are dropped (value, and next through impl Drop for
\* AtomicArc) and the allocation is freed.
Node_drop(t) ==
    /\ StackFrame
    /\ spc[t] # "ub" /\ frames[t] # <<>>
    /\ Top(t).kind = "node"
    /\ LET f == Top(t) IN
         CASE f.ph = "swap" ->
                /\ nnext' = [nnext EXCEPT ![f.p] = 0]
                /\ SetTop(t, [f EXCEPT !.nx = nnext[f.p],
                                       !.ph = IF nnext[f.p] = 0 THEN "break" ELSE "loop"])
                /\ UNCHANGED <<nval, nfreed, spc>>
           [] f.ph = "loop" ->
                IF Gone(f.nx)
                  THEN Ub(t)
                  ELSE /\ nnext' = [nnext EXCEPT ![f.nx] = 0]
                       /\ SetTopAndCall(t,
                             [f EXCEPT !.nx = nnext[f.nx],
                                       !.ph = IF nnext[f.nx] = 0 THEN "break" ELSE "loop"],
                             Shared(f.nx))
                       /\ UNCHANGED <<nval, nfreed, spc>>
           [] f.ph = "break" ->
                /\ SetTopAndCall(t, [f EXCEPT !.ph = "fields"], Shared(0))
                /\ UNCHANGED <<nnext, nval, nfreed, spc>>
           [] f.ph = "fields" ->
                /\ nval' = [nval EXCEPT ![f.p] = FALSE]
                /\ SetTopAndCall(t, [f EXCEPT !.ph = "free"], NextDrop(nnext[f.p]))
                /\ UNCHANGED <<nnext, nfreed, spc>>
           [] f.ph = "free" ->
                /\ nfreed' = [nfreed EXCEPT ![f.p] = @ + 1]
                /\ PopFrame(t)
                /\ UNCHANGED <<nnext, nval, spc>>
    /\ UNCHANGED <<head, ncount, nalloc, shaz, sin_use, sentry, sloc, got, calls>>

\* ---- AtomicArc::get on the head and on a node's next ----------------------------

\* The call of get on cell c: the thread-local Harness registers on first use.
StartGet(t, l, c) ==
    /\ spc' = [spc EXCEPT ![t] = IF sentry[t] = 0 THEN "register" ELSE "alloc"]
    /\ sloc' = [sloc EXCEPT ![t] = [l EXCEPT !.cell = c, !.k = 1]]

\* Registry::register, one entry per step: the load of in_use and the swap that
\* claims the entry.
StRegister(t) ==
    /\ StackFrame
    /\ frames[t] = <<>> /\ spc[t] = "register"
    /\ LET e == sloc[t].k IN
         IF ~sin_use[e]
           THEN /\ sin_use' = [sin_use EXCEPT ![e] = TRUE]
                /\ sentry' = [sentry EXCEPT ![t] = e]
                /\ spc' = [spc EXCEPT ![t] = "alloc"]
                /\ sloc' = [sloc EXCEPT ![t].k = 1]
           ELSE /\ e < NumThreads
                /\ sloc' = [sloc EXCEPT ![t].k = e + 1]
                /\ UNCHANGED <<sin_use, sentry, spc>>
    /\ UNCHANGED <<head, nnext, nval, ncount, nfreed, nalloc, shaz, frames, got, calls>>

\* ThreadEntry::allocate_hazard_slot, one hazard per step: the first slot that
\* holds 0.  Past the slots that the stack can fill the code would go on to the
\* remaining slots of the entry; the position "extend" stands for that.
StAllocSlot(t) ==
    /\ StackFrame
    /\ frames[t] = <<>> /\ spc[t] = "alloc"
    /\ LET k == sloc[t].k IN
         IF shaz[sentry[t]][k] = 0
           THEN /\ spc' = [spc EXCEPT ![t] = "load"]
                /\ sloc' = [sloc EXCEPT ![t].slot = k]
           ELSE IF k < StackSlots
                  THEN /\ sloc' = [sloc EXCEPT ![t].k = k + 1]
                       /\ UNCHANGED spc
                  ELSE /\ spc' = [spc EXCEPT ![t] = "extend"]
                       /\ UNCHANGED sloc
    /\ UNCHANGED <<head, nnext, nval, ncount, nfreed, nalloc, shaz, sin_use, sentry,
                   frames, got, calls>>

\* let mut inner = self.inner.load(Relaxed);
StGetLoad(t) ==
    /\ StackFrame
    /\ frames[t] = <<>> /\ spc[t] = "load"
    /\ IF Gone(sloc[t].cell)
         THEN Ub(t)
         ELSE /\ spc' = [spc EXCEPT ![t] = "publish"]
              /\ sloc' = [sloc EXCEPT ![t].inner = Word(sloc[t].cell)]
              /\ UNCHANGED <<head, nnext, nval, ncount, nfreed, nalloc, shaz, sin_use,
                             sentry, frames, got, calls>>

\* slot.compare_and_swap(0, inner, SeqCst) on x86, slot.store(inner) and a fence
\* elsewhere.
StGetPublish(t) ==
    /\ StackFrame
    /\ frames[t] = <<>> /\ spc[t] = "publish"
    /\ LET e == sentry[t]
           k == sloc[t].slot
       IN  \E v \in {sloc[t].inner, IF shaz[e][k] = 0 THEN sloc[t].inner ELSE shaz[e][k]} :
             shaz' = [shaz EXCEPT ![e][k] = v]
    /\ spc' = [spc EXCEPT ![t] = "reload"]
    /\ UNCHANGED <<head, nnext, nval, ncount, nfreed, nalloc, sin_use, sentry,
                   sloc, frames, got, calls>>

\* let new = self.inner.load(Relaxed); if new == inner { return guard; }
\* inner = new;   and the guard of the failed round is dropped.
\* The guard of the head goes to (hp, hs), the guard of h.next to (gp, gs).  In
\* pop, `match head.as_ref()` follows at once: None returns None, Some(h) calls
\* h.next.get().
StGetReload(t) ==
    /\ StackFrame
    /\ frames[t] = <<>> /\ spc[t] = "reload"
    /\ LET l == sloc[t] IN
         IF Gone(l.cell)
           THEN Ub(t)
           ELSE /\ IF Word(l.cell) # l.inner
                     THEN /\ spc' = [spc EXCEPT ![t] = "gdrop"]
                          /\ sloc' = [sloc EXCEPT ![t].cur = Word(l.cell)]
                     ELSE IF l.cell # 0
                       THEN /\ spc' = [spc EXCEPT ![t] = "q_clone"]
                            /\ sloc' = [sloc EXCEPT ![t].gp = l.inner, ![t].gs = l.slot]
                       ELSE LET g == [l EXCEPT !.hp = l.inner, !.hs = l.slot,
                                               !.empty = (head = 0)]
                            IN  IF l.op = "push"
                                  THEN /\ spc' = [spc EXCEPT ![t] = "p_clone"]
                                       /\ sloc' = [sloc EXCEPT ![t] = g]
                                  ELSE IF l.inner = 0
                                    THEN /\ spc' = [spc EXCEPT ![t] = "hdrop"]
                                         /\ sloc' = [sloc EXCEPT ![t] =
                                                [g EXCEPT !.ret = "idle", !.res = "none"]]
                                    ELSE /\ spc' = [spc EXCEPT ![t] = "alloc"]
                                         /\ sloc' = [sloc EXCEPT ![t] =
                                                [g EXCEPT !.cell = l.inner, !.k = 1]]
                /\ UNCHANGED <<head, nnext, nval, ncount, nfreed, nalloc, shaz, sin_use,
                               sentry, frames, got, calls>>

\* impl Drop for SharedArc with a slot: slot.swap(0, SeqCst), and the drop
\* responsibility is this guard's if the slot did not hold the guard's pointer.
\* "gdrop" is the guard of a failed round of get, "g2drop" the guard of h.next
\* at the end of `new.into()`, "hdrop" the guard of the head at the end of the
\* loop's body or at the return.
StSwapSlot(t) ==
    /\ StackFrame
    /\ frames[t] = <<>> /\ spc[t] \in {"gdrop", "g2drop", "hdrop"}
    /\ LET l == sloc[t]
           e == sentry[t]
           p == CASE spc[t] = "gdrop" -> l.inner
                  [] spc[t] = "g2drop" -> l.gp
                  [] spc[t] = "hdrop" -> l.hp
           k == CASE spc[t] = "gdrop" -> l.slot
                  [] spc[t] = "g2drop" -> l.gs
                  [] spc[t] = "hdrop" -> l.hs
       IN  /\ shaz' = [shaz EXCEPT ![e][k] = 0]
           /\ frames' = [frames EXCEPT ![t] =
                            IF shaz[e][k] # p THEN Append(@, Shared(p)) ELSE @]
           /\ CASE spc[t] = "gdrop" ->
                     /\ spc' = [spc EXCEPT ![t] = "publish"]
                     /\ sloc' = [sloc EXCEPT ![t].inner = l.cur]
                     /\ UNCHANGED calls
                [] spc[t] = "g2drop" ->
                     /\ spc' = [spc EXCEPT ![t] = "q_cas"]
                     /\ UNCHANGED <<sloc, calls>>
                [] spc[t] = "hdrop" /\ l.ret = "retry" ->
                     /\ StartGet(t, [l EXCEPT !.hp = 0, !.hs = 0, !.gp = 0, !.gs = 0,
                                              !.arg = 0, !.ret = "idle"], 0)
                     /\ UNCHANGED calls
                [] spc[t] = "hdrop" /\ l.ret # "retry" ->
                     /\ spc' = [spc EXCEPT ![t] = "idle"]
                     /\ sloc' = [sloc EXCEPT ![t] = NoSLoc]
                     /\ calls' = [calls EXCEPT ![t].some = @ + (IF l.res = "some" THEN 1 ELSE 0)]
    /\ UNCHANGED <<head, nnext, nval, ncount, nfreed, nalloc, sin_use, sentry, got>>

\* clone_inner: Arc::clone on the pointer, nothing for null.
MoreStrong(p) == IF p = 0 THEN ncount ELSE [ncount EXCEPT ![p] = @ + 1]

\* ---- Stack::push ---------------------------------------------------------------

\* let mut new = Arc::new(Node { value: Mutex::new(Some(value)),
\*                               next: AtomicArc::new(None) });
\* and the first self.head.get() of the loop.
Stack_push(t) ==
    /\ StackFrame
    /\ frames[t] = <<>> /\ spc[t] = "idle"
    /\ calls[t].push < MaxPush
    /\ nalloc < NumThreads * MaxPush
    /\ LET n == nalloc + 1 IN
         /\ nalloc' = n
         /\ ncount' = [ncount EXCEPT ![n] = 1]
         /\ nval' = [nval EXCEPT ![n] = TRUE]
         /\ StartGet(t, [NoSLoc EXCEPT !.op = "push", !.new = n], 0)
    /\ calls' = [calls EXCEPT ![t].push = @ + 1]
    /\ UNCHANGED <<head, nnext, nfreed, shaz, sin_use, sentry, frames, got>>

\* new.next.set(&head) with a conversion that copies the pointer without
\* Arc::clone.
PushClone_NoClone(t) ==
    /\ StackFrame
    /\ frames[t] = <<>> /\ spc[t] = "p_clone"
    /\ spc' = [spc EXCEPT ![t] = "p_set"]
    /\ UNCHANGED <<head, nnext, nval, ncount, nfreed, nalloc, shaz, sin_use, sentry,
                   sloc, frames, got, calls>>

\* new.next.set(&head), first half: (&head).into() is head.clone_inner(), one
\* strong count more on the head's node.
PushClone(t) ==
    /\ StackFrame
    /\ frames[t] = <<>> /\ spc[t] = "p_clone"
    /\ LET p == sloc[t].hp IN
         IF p # 0 /\ (Gone(p) \/ ncount[p] = 0)
           THEN Ub(t)
           ELSE /\ ncount' = MoreStrong(p)
                /\ spc' = [spc EXCEPT ![t] = "p_set"]
                /\ UNCHANGED <<head, nnext, nval, nfreed, nalloc, shaz, sin_use, sentry,
                               sloc, frames, got, calls>>

\* new.next.set(&head), second half: replace swaps the pointer into new.next
\* and the SharedArc::new(old, null) it returns is dropped.
PushSet(t) ==
    /\ StackFrame
    /\ frames[t] = <<>> /\ spc[t] = "p_set"
    /\ LET l == sloc[t] IN
         /\ nnext' = [nnext EXCEPT ![l.new] = l.hp]
         /\ Call(t, Shared(nnext[l.new]))
    /\ spc' = [spc EXCEPT ![t] = "p_cas"]
    /\ UNCHANGED <<head, nval, ncount, nfreed, nalloc, shaz, sin_use, sentry,
                   sloc, got, calls>>

\* self.head.compare_and_set(&head, new): on success the SharedArc::new(old,
\* null) is dropped and push breaks out of the loop; on failure the Arc comes
\* back as Err(Some(new)) and the loop goes round.  Either way the guard of the
\* head is dropped next.
PushCas(t) ==
    /\ StackFrame
    /\ frames[t] = <<>> /\ spc[t] = "p_cas"
    /\ LET l == sloc[t] IN
         IF head = l.hp
           THEN /\ head' = l.new
                /\ Call(t, Shared(l.hp))
                /\ sloc' = [sloc EXCEPT ![t].ret = "idle", ![t].res = "pushed"]
           ELSE /\ sloc' = [sloc EXCEPT ![t].ret = "retry"]
                /\ UNCHANGED <<head, frames>>
    /\ spc' = [spc EXCEPT ![t] = "hdrop"]
    /\ UNCHANGED <<nnext, nval, ncount, nfreed, nalloc, shaz, sin_use, sentry,
                   got, calls>>

\* ---- Stack::pop ----------------------------------------------------------------

\* The first self.head.get() of the loop.
Stack_pop(t) ==
    /\ StackFrame
    /\ frames[t] = <<>> /\ spc[t] = "idle"
    /\ calls[t].pop < MaxPop
    /\ StartGet(t, [NoSLoc EXCEPT !.op = "pop"], 0)
    /\ calls' = [calls EXCEPT ![t].pop = @ + 1]
    /\ UNCHANGED <<head, nnext, nval, ncount, nfreed, nalloc, shaz, sin_use, sentry,
                   frames, got>>

\* compare_and_set(&head, h.next.get()): new.into() on the SharedArc that
\* h.next.get() returned is clone_inner, after which that SharedArc is dropped.
PopClone(t) ==
    /\ StackFrame
    /\ frames[t] = <<>> /\ spc[t] = "q_clone"
    /\ LET p == sloc[t].gp IN
         IF p # 0 /\ (Gone(p) \/ ncount[p] = 0)
           THEN Ub(t)
           ELSE /\ ncount' = MoreStrong(p)
                /\ spc' = [spc EXCEPT ![t] = "g2drop"]
                /\ sloc' = [sloc EXCEPT ![t].arg = p]
                /\ UNCHANGED <<head, nnext, nval, nfreed, nalloc, shaz, sin_use, sentry,
                               frames, got, calls>>

\* self.head.compare_and_set(&head, next).is_ok(): on success the
\* SharedArc::new(old, null) is dropped; on failure the Err(Option<Arc>) is
\* dropped, one strong count less on the node it names, and the loop goes round
\* after the guard of the head is dropped.
PopCas(t) ==
    /\ StackFrame
    /\ frames[t] = <<>> /\ spc[t] = "q_cas"
    /\ LET l == sloc[t] IN
         IF head = l.hp
           THEN /\ head' = l.arg
                /\ Call(t, Shared(l.hp))
                /\ spc' = [spc EXCEPT ![t] = "q_unlink"]
                /\ UNCHANGED sloc
           ELSE /\ frames' = [frames EXCEPT ![t] =
                                 IF l.arg # 0 THEN Append(@, ArcDrop(l.arg)) ELSE @]
                /\ spc' = [spc EXCEPT ![t] = "hdrop"]
                /\ sloc' = [sloc EXCEPT ![t].ret = "retry"]
                /\ UNCHANGED head
    /\ UNCHANGED <<nnext, nval, ncount, nfreed, nalloc, shaz, sin_use, sentry,
                   got, calls>>

\* h.next.set(None): the swap and the drop of the SharedArc::new(old, null).
PopUnlink(t) ==
    /\ StackFrame
    /\ frames[t] = <<>> /\ spc[t] = "q_unlink"
    /\ LET p == sloc[t].hp IN
         IF Gone(p)
           THEN Ub(t)
           ELSE /\ nnext' = [nnext EXCEPT ![p] = 0]
                /\ Call(t, Shared(nnext[p]))
                /\ spc' = [spc EXCEPT ![t] = "q_take"]
                /\ UNCHANGED <<head, nval, ncount, nfreed, nalloc, shaz, sin_use,
                               sentry, sloc, got, calls>>

\* return h.value.lock().take(); the guard of the head is dropped on the way out.
PopTake(t) ==
    /\ StackFrame
    /\ frames[t] = <<>> /\ spc[t] = "q_take"
    /\ LET p == sloc[t].hp IN
         IF Gone(p)
           THEN Ub(t)
           ELSE /\ nval' = [nval EXCEPT ![p] = FALSE]
                /\ got' = [got EXCEPT ![p] = @ + (IF nval[p] THEN 1 ELSE 0)]
                /\ sloc' = [sloc EXCEPT ![t].ret = "idle",
                                        ![t].res = IF nval[p] THEN "some" ELSE "none"]
                /\ spc' = [spc EXCEPT ![t] = "hdrop"]
                /\ UNCHANGED <<head, nnext, ncount, nfreed, nalloc, shaz, sin_use,
                               sentry, frames, calls>>

\* ---- the specification of the stack ----------------------------------------------

NextStack ==
    \/ \E t \in Threads : Stack_push(t)
    \/ \E t \in Threads : Stack_pop(t)
    \/ \E t \in Threads : StRegister(t)
    \/ \E t \in Threads : StAllocSlot(t)
    \/ \E t \in Threads : StGetLoad(t)
    \/ \E t \in Threads : StGetPublish(t)
    \/ \E t \in Threads : StGetReload(t)
    \/ \E t \in Threads : StSwapSlot(t)
    \/ \E t \in Threads : PushClone(t)
    \/ \E t \in Threads : PushSet(t)
    \/ \E t \in Threads : PushCas(t)
    \/ \E t \in Threads : PopClone(t)
    \/ \E t \in Threads : PopCas(t)
    \/ \E t \in Threads : PopUnlink(t)
    \/ \E t \in Threads : PopTake(t)
    \/ \E t \in Threads : StScanEntry(t)
    \/ \E t \in Threads : StScanSlot(t)
    \/ \E t \in Threads : StRelease(t)
    \/ \E t \in Threads : Node_drop(t)

SpecStack == Init /\ [][NextStack]_vars

\* ---- what the stack guarantees ---------------------------------------------------

\* No thread is inside push, pop or a drop.
StackQuiet == \A t \in Threads : spc[t] = "idle" /\ frames[t] = <<>>

\* The pops that returned Some so far.
SomePops == SumTo([t \in Threads |-> calls[t].some], NumThreads)

\* C32: under any interleaving of push and pop by several threads no thread
\* touches a freed node, drops a count that is not there or runs out of the
\* hazard slots the stack can fill; no node's value is returned by two pops and
\* no node is freed twice; pop returns None only from a round whose second
\* load of the head found it null, so the stack was empty at that instant; and
\* once every call has returned and as many pops returned Some as values were
\* pushed, the head is null and every node that was pushed has given its value
\* to exactly one pop, has no strong count left and has been freed exactly once.
C32_StackLinearizable ==
    /\ \A t \in Threads : spc[t] \notin {"ub", "extend"}
    /\ \A n \in Nodes : nfreed[n] <= 1 /\ got[n] <= 1
    /\ \A n \in Nodes : n > nalloc => (nfreed[n] = 0 /\ got[n] = 0 /\ ncount[n] = 0)
    /\ \A t \in Threads :
         (spc[t] = "hdrop" /\ sloc[t].op = "pop" /\ sloc[t].ret = "idle"
            /\ sloc[t].res = "none") => (sloc[t].empty /\ sloc[t].hp = 0)
    /\ (StackQuiet /\ SomePops = nalloc) =>
         /\ head = 0
         /\ \A n \in Nodes : n <= nalloc =>
              (got[n] = 1 /\ nfreed[n] = 1 /\ ncount[n] = 0 /\ ~nval[n] /\ nnext[n] = 0)
         /\ \A e \in Threads : \A k \in 1..StackSlots : shaz[e][k] = 0

\* Every thread pushed and popped, every pop returned a value, and all of it
\* is over: both nodes were handed out once and freed once.
C32_Witness ==
    /\ StackQuiet
    /\ nalloc = NumThreads * MaxPush
    /\ SomePops = nalloc
    /\ \A t \in Threads : calls[t].push = MaxPush /\ calls[t].some = MaxPop
    /\ \A n \in Nodes : got[n] = 1 /\ nfreed[n] = 1
    /\ head = 0

====
